---------------------------- MODULE Spec2Model ----------------------------
(***************************************************************************)
(* A model of the TREC inspection-report generators:                       *)
(*   src/generate_report.py  (form overlay: fill_trec_form)                *)
(*   src/Bonus.py            (free-standing report: render_report)         *)
(*                                                                         *)
(* Strings are sequences of one-character strings.  Lengths are integers   *)
(* in milli-points (1 pt = 1000), so that 10.5 * 1.35 and 2.4 inch are     *)
(* exact.                                                                  *)
(***************************************************************************)
EXTENDS Integers, Sequences, FiniteSets, TLC

VARIABLES
    pc,         \* position of the (single) main thread in the handler modelled
    text,       \* wrap_text / draw_text_in_rect: the input text
    max_width,  \* wrap_text: the max_width argument
    lines,      \* wrap_text: the returned list of lines
    rect,       \* draw_text_in_rect: the rect argument (x1, y1, x2, y2)
    canvas,     \* the drawing calls made on the canvas c, in order
    ret,        \* draw_text_in_rect: the returned pair (ok, remainder)
    data,       \* the inspection JSON document
    items,      \* extraction: the list of item dicts
    media,      \* extraction: the list of media dicts
    media_map,  \* build_media_map: index -> {kind, url, img}  (out)
    net,        \* the network: URL -> its answer to a request for it
    photo_targets, \* build_media_map: URL -> indices, in insertion order
    future_map, \* build_media_map: the submitted futures, in order
    queue,      \* the pool's work queue: futures not yet taken by a worker
    worker,     \* per pool thread: the future it is running, or 0
    yielded,    \* the futures as_completed has handed to the loop
    writes,     \* every write to out: the key, the thread, the field
    widgets,    \* the template's annotations, in page and /Annots order
    checkboxes, \* fill_trec_form: the checkbox widgets found (as indices)
    comment_fields, \* fill_trec_form: the comment boxes found (as indices)
    overflow,   \* fill_trec_form: the entries of the appendix
    cur_y,      \* the layout cursor y of the inline renderers
    SHOW_VIDEO_URLS, \* generate_report.py: the flag read from the environment
    calls       \* the renderer calls made so far on the cursor

flowVars == <<text, max_width, lines, rect, ret>>
docVars == <<data, items, media, media_map>>
poolVars == <<net, photo_targets, future_map, queue, worker, yielded, writes>>
formVars == <<widgets, checkboxes, comment_fields, overflow>>
layoutVars == <<cur_y, SHOW_VIDEO_URLS, calls>>
vars == <<pc, canvas, flowVars, docVars, poolVars, formVars, layoutVars>>

\* Python's None, where a string (URL, title, status) is expected.
NULL == "None"

\* Python's None in the "img" field; a decoded image is <<url, iw, ih>>.
NoImg == <<>>

\* The variables of the handlers a specification does not run.
IdleFlow ==
    /\ text = <<>>
    /\ max_width = 0
    /\ lines = <<>>
    /\ rect = <<0, 0, 0, 0>>
    /\ ret = [ok |-> FALSE, rest |-> <<>>]

IdleDoc ==
    /\ data = [headerImageUrl |-> NULL, sections |-> <<>>]
    /\ items = <<>>
    /\ media = <<>>
    /\ media_map = <<>>

IdlePool ==
    /\ net = <<>>
    /\ photo_targets = <<>>
    /\ future_map = <<>>
    /\ queue = <<>>
    /\ worker = <<>>
    /\ yielded = {}
    /\ writes = <<>>

IdleForm ==
    /\ widgets = <<>>
    /\ checkboxes = <<>>
    /\ comment_fields = <<>>
    /\ overflow = <<>>

IdleLayout ==
    /\ cur_y = 0
    /\ SHOW_VIDEO_URLS = FALSE
    /\ calls = 0

(***************************************************************************)
(* Small arithmetic helpers.                                               *)
(***************************************************************************)
Min(a, b) == IF a <= b THEN a ELSE b
Max(a, b) == IF a >= b THEN a ELSE b

(***************************************************************************)
(* Strings.                                                                *)
(***************************************************************************)
\* Python's str.split() (no argument) separates on these.
IsSpace(ch) == ch \in {" ", "\n", "\t"}

RECURSIVE split(_, _)
\* s.split(sep) for a one-character sep: the pieces between the separators,
\* empty pieces kept.
split(s, sep) ==
    IF \A i \in 1..Len(s) : s[i] # sep THEN <<s>>
    ELSE LET i == CHOOSE k \in 1..Len(s) :
                      s[k] = sep /\ \A j \in 1..(k - 1) : s[j] # sep
         IN  <<SubSeq(s, 1, i - 1)>> \o split(SubSeq(s, i + 1, Len(s)), sep)

RECURSIVE split_ws(_)
\* s.split(): the maximal runs of non-whitespace characters, in order.
split_ws(s) ==
    IF s = <<>> THEN <<>>
    ELSE IF IsSpace(s[1]) THEN split_ws(Tail(s))
    ELSE LET stops == {k \in 1..Len(s) : IsSpace(s[k])}
             n == IF stops = {} THEN Len(s)
                  ELSE (CHOOSE k \in stops : \A j \in stops : k <= j) - 1
         IN  <<SubSeq(s, 1, n)>> \o split_ws(SubSeq(s, n + 1, Len(s)))

RECURSIVE join(_, _)
\* sep.join(parts)
join(parts, sep) ==
    IF parts = <<>> THEN <<>>
    ELSE IF Len(parts) = 1 THEN parts[1]
    ELSE parts[1] \o sep \o join(Tail(parts), sep)

RECURSIVE strip(_)
\* s.strip(): leading and trailing whitespace removed.
strip(s) ==
    IF s = <<>> THEN s
    ELSE IF IsSpace(s[1]) THEN strip(Tail(s))
    ELSE IF IsSpace(s[Len(s)]) THEN strip(SubSeq(s, 1, Len(s) - 1))
    ELSE s

\* Helvetica's advance widths in 1/1000 em: the font metric behind
\* canvas.stringWidth.
CharWidth(ch) ==
    CASE ch \in {" ", "[", "]", "\t", "\n"} -> 278
      [] ch = "i" -> 222
      [] ch = "M" -> 833
      [] OTHER -> 556

RECURSIVE emWidth(_)
emWidth(s) == IF s = <<>> THEN 0 ELSE CharWidth(s[1]) + emWidth(Tail(s))

\* c.stringWidth(s, font, size), size and result in milli-points.
stringWidth(s, size) == (emWidth(s) * size) \div 1000

(***************************************************************************)
(* generate_report.py configuration (milli-points).                        *)
(***************************************************************************)
FIXED_SIZE == 10000
LINE_HEIGHT == (FIXED_SIZE * 12) \div 10
LEFT_PAD == 6000
RIGHT_PAD == 6000
TOP_PAD == 6000
BOT_PAD == 6000

(***************************************************************************)
(* Bonus.py configuration (milli-points).                                  *)
(***************************************************************************)
FS == 10500
LH == (FS * 135) \div 100
H3_FS == 11500

(***************************************************************************)
(* Text Flow Engine: wrap_text (generate_report.py) and wrap_lines         *)
(* (Bonus.py) are the same loop.                                           *)
(***************************************************************************)
RECURSIVE wrap_words_drop(_, _, _, _, _)
\* wrap_words without the "if cur: lines.append(cur)" of the else branch.
wrap_words_drop(words, cur, maxw, size, out) ==
    IF words = <<>> THEN (IF cur # <<>> THEN Append(out, cur) ELSE out)
    ELSE LET w == Head(words)
             test == IF cur = <<>> THEN w ELSE cur \o <<" ">> \o w
         IN  IF stringWidth(test, size) <= maxw
             THEN wrap_words_drop(Tail(words), test, maxw, size, out)
             ELSE wrap_words_drop(Tail(words), w, maxw, size, out)

\* A loop that starts a new line at every word: "cur" is never extended.
wrap_words_eager(words, cur, maxw, size, out) ==
    (IF cur # <<>> THEN Append(out, cur) ELSE out) \o words

RECURSIVE wrap_words(_, _, _, _, _)
\* The inner loop "for w in words" with its trailing "if cur".
wrap_words(words, cur, maxw, size, out) ==
    IF words = <<>> THEN (IF cur # <<>> THEN Append(out, cur) ELSE out)
    ELSE LET w == Head(words)
             test == IF cur = <<>> THEN w ELSE cur \o <<" ">> \o w
         IN  IF stringWidth(test, size) <= maxw
             THEN wrap_words(Tail(words), test, maxw, size, out)
             ELSE wrap_words(Tail(words), w, maxw, size,
                             IF cur # <<>> THEN Append(out, cur) ELSE out)

RECURSIVE wrap_paras(_, _, _, _)
\* The outer loop "for para in (text or '').split('\n')".
wrap_paras(paras, maxw, size, out) ==
    IF paras = <<>> THEN out
    ELSE LET words == split_ws(Head(paras))
         IN  IF words = <<>>
             THEN wrap_paras(Tail(paras), maxw, size, Append(out, <<>>))
             ELSE wrap_paras(Tail(paras), maxw, size,
                             wrap_words(words, <<>>, maxw, size, out))

\* generate_report.py: always measured at FIXED_FONT, FIXED_SIZE.
wrap_text(t, maxw) == wrap_paras(split(t, "\n"), maxw, FIXED_SIZE, <<>>)

\* Bonus.py: measured at FONT, fs.
wrap_lines(t, maxw, fs) == wrap_paras(split(t, "\n"), maxw, fs, <<>>)

(***************************************************************************)
(* draw_text_in_rect.                                                      *)
(***************************************************************************)
rect_coords(r) ==
    [left   |-> Min(r[1], r[3]), right |-> Max(r[1], r[3]),
     bottom |-> Min(r[2], r[4]), top   |-> Max(r[2], r[4])]

\* The drawing loop without "y -= LINE_HEIGHT": every line at the same y.
draw_lines_same_y(ls, left, y) ==
    [i \in 1..Len(ls) |->
        [op |-> "drawString", x |-> left, y |-> y, s |-> ls[i]]]

RECURSIVE draw_lines(_, _, _)
\* "for line in ...: c.drawString(left, y, line); y -= LINE_HEIGHT"
draw_lines(ls, left, y) ==
    IF ls = <<>> THEN <<>>
    ELSE <<[op |-> "drawString", x |-> left, y |-> y, s |-> Head(ls)]>>
         \o draw_lines(Tail(ls), left, y - LINE_HEIGHT)

\* capacity = int(max_h // LINE_HEIGHT)
rect_capacity(r) ==
    LET rc == rect_coords(r)
        max_h == Max(0, (rc.top - TOP_PAD) - (rc.bottom + BOT_PAD))
    IN  max_h \div LINE_HEIGHT

\* max_w = max(0, right - left)
rect_max_w(r) ==
    LET rc == rect_coords(r)
    IN  Max(0, (rc.right - RIGHT_PAD) - (rc.left + LEFT_PAD))

\* draw_text_in_rect whose remainder starts one line late
\* (lines[capacity+1:] for lines[capacity:]).
draw_text_in_rect_skip(r, t) ==
    LET rc == rect_coords(r)
        left == rc.left + LEFT_PAD
        top == rc.top - TOP_PAD
        ls == wrap_text(t, rect_max_w(r))
        capacity == rect_capacity(r)
        white == <<[op |-> "rect", x |-> rc.left, y |-> rc.bottom,
                    w |-> rc.right - rc.left, h |-> rc.top - rc.bottom]>>
    IN  IF capacity <= 0
        THEN [ops |-> white, ok |-> FALSE, rest |-> t]
        ELSE IF Len(ls) <= capacity
        THEN [ops |-> white \o draw_lines(ls, left, top - LINE_HEIGHT),
              ok |-> TRUE, rest |-> <<>>]
        ELSE [ops |-> white \o draw_lines(SubSeq(ls, 1, capacity), left,
                                          top - LINE_HEIGHT),
              ok |-> FALSE,
              rest |-> join(SubSeq(ls, capacity + 2, Len(ls)), <<"\n">>)]

\* The value draw_text_in_rect returns, with the calls it makes on c.
draw_text_in_rect(r, t) ==
    LET rc == rect_coords(r)
        left == rc.left + LEFT_PAD
        top == rc.top - TOP_PAD
        ls == wrap_text(t, rect_max_w(r))
        capacity == rect_capacity(r)
        white == <<[op |-> "rect", x |-> rc.left, y |-> rc.bottom,
                    w |-> rc.right - rc.left, h |-> rc.top - rc.bottom]>>
    IN  IF capacity <= 0
        THEN [ops |-> white, ok |-> FALSE, rest |-> t]
        ELSE IF Len(ls) <= capacity
        THEN [ops |-> white \o draw_lines(ls, left, top - LINE_HEIGHT),
              ok |-> TRUE, rest |-> <<>>]
        ELSE [ops |-> white \o draw_lines(SubSeq(ls, 1, capacity), left,
                                          top - LINE_HEIGHT),
              ok |-> FALSE,
              rest |-> join(SubSeq(ls, capacity + 1, Len(ls)), <<"\n">>)]

(***************************************************************************)
(* Bounds of the text-flow specifications.                                 *)
(***************************************************************************)
MaxLen == 5

FlowChars == {"a", "i", " ", "\n"}

RECURSIVE StringsUpTo(_, _)
StringsUpTo(chars, n) ==
    IF n = 0 THEN {<<>>}
    ELSE LET shorter == StringsUpTo(chars, n - 1)
         IN  shorter \cup {Append(s, ch) : s \in shorter, ch \in chars}

FlowTexts == StringsUpTo(FlowChars, MaxLen)

\* Widths from "nothing fits" to "everything fits".
FlowWidths == {0, 2500, 6000, 9000, 14000, 30000}

\* Rectangles of capacity 0 (two ways), 1, 2 and 3, one given with its
\* corners swapped, and inner widths from 0 up.
FlowRects ==
    {<<0, 0, w, h>> : w \in {10000, 18000, 21000, 42000},
                      h \in {10000, 23000, 24000, 36000, 50000}}
    \cup {<<21000, 36000, 0, 0>>}

(***************************************************************************)
(* Specification SpecWrap: wrap_text applied to every bounded input.       *)
(***************************************************************************)
InitWrap ==
    /\ pc = "start"
    /\ text \in FlowTexts
    /\ max_width \in FlowWidths
    /\ lines = <<>>
    /\ rect = <<0, 0, 0, 0>>
    /\ canvas = <<>>
    /\ ret = [ok |-> FALSE, rest |-> <<>>]
    /\ IdleDoc
    /\ IdlePool
    /\ IdleForm
    /\ IdleLayout

WrapText ==
    /\ pc = "start"
    /\ lines' = wrap_text(text, max_width)
    /\ canvas' = <<[op |-> "setFont", size |-> FIXED_SIZE]>>
    /\ pc' = "wrapped"
    /\ UNCHANGED <<formVars, layoutVars,
                   text, max_width, rect, ret, docVars, poolVars>>

\* Bonus.py calls wrap_lines at FS (draw_inline) and at 11.5 (draw_item_card).
WrapLines ==
    /\ pc = "start"
    /\ \E fs \in {FS, H3_FS} :
           /\ lines' = wrap_lines(text, max_width, fs)
           /\ canvas' = <<[op |-> "setFont", size |-> fs]>>
    /\ pc' = "wrapped"
    /\ UNCHANGED <<formVars, layoutVars,
                   text, max_width, rect, ret, docVars, poolVars>>

NextWrap == WrapText \/ WrapLines

SpecWrap == InitWrap /\ [][NextWrap]_vars

(***************************************************************************)
(* Specification SpecRect: draw_text_in_rect applied to every bounded      *)
(* text and rectangle.                                                     *)
(***************************************************************************)
InitRect ==
    /\ pc = "start"
    /\ text \in FlowTexts
    /\ rect \in FlowRects
    /\ max_width = rect_max_w(rect)
    /\ lines = <<>>
    /\ canvas = <<>>
    /\ ret = [ok |-> FALSE, rest |-> <<>>]
    /\ IdleDoc
    /\ IdlePool
    /\ IdleForm
    /\ IdleLayout

DrawTextInRect ==
    /\ pc = "start"
    /\ LET r == draw_text_in_rect(rect, text)
       IN  /\ canvas' = r.ops
           /\ ret' = [ok |-> r.ok, rest |-> r.rest]
    /\ lines' = wrap_text(text, max_width)
    /\ pc' = "filled"
    /\ UNCHANGED <<formVars, layoutVars,
                   text, max_width, rect, docVars, poolVars>>

NextRect == DrawTextInRect

SpecRect == InitRect /\ [][NextRect]_vars

(***************************************************************************)
(* C1: wrap drops no word and duplicates none.  For every text and width,  *)
(* the wrapped lines joined with single spaces and whitespace-normalised   *)
(* are the whitespace-normalised input: same words, same order.            *)
(***************************************************************************)
\* " ".join(s.split()): runs of whitespace collapsed, ends trimmed.
Normalize(s) == join(split_ws(s), <<" ">>)

C1_WrapKeepsWords ==
    pc = "wrapped" =>
        Normalize(join(lines, <<" ">>)) = Normalize(text)

\* A wrap that broke a paragraph, placed an over-wide word alone and kept
\* a blank paragraph.
C1_Witness ==
    /\ pc = "wrapped"
    /\ max_width > 0
    /\ Len(lines) >= 3
    /\ \E i \in 1..Len(lines) : stringWidth(lines[i], FIXED_SIZE) > max_width
    /\ \E i \in 1..Len(lines) : lines[i] = <<>>
    /\ Len(split_ws(text)) >= 2

(***************************************************************************)
(* C2: draw_text_in_rect never draws more than floor(innerHeight /         *)
(* lineHeight) lines, and the drawn lines followed by the remainder's      *)
(* lines are the wrapped-line sequence of the text at the inner width.     *)
(***************************************************************************)
\* The strings drawn by c.drawString, in drawing order.
DrawnLines ==
    LET ds == SelectSeq(canvas, LAMBDA o : o.op = "drawString")
    IN  [i \in 1..Len(ds) |-> ds[i].s]

\* The lines of the returned remainder: none when the text was fully
\* placed, remainder.split("\n") otherwise.
RemainderLines == IF ret.ok THEN <<>> ELSE split(ret.rest, "\n")

\* C2 as stated: for every capacity, capacity zero included.
C2_Original ==
    pc = "filled" =>
        /\ Len(DrawnLines) <= rect_capacity(rect)
        /\ DrawnLines \o RemainderLines = wrap_text(text, rect_max_w(rect))

\* C2 as amended: the reconstruction holds for every capacity >= 1; at
\* capacity zero nothing is drawn and the remainder is the input text
\* itself, unwrapped.
C2_FillRectReconstructs ==
    pc = "filled" =>
        /\ Len(DrawnLines) <= rect_capacity(rect)
        /\ rect_capacity(rect) >= 1 =>
               DrawnLines \o RemainderLines
                   = wrap_text(text, rect_max_w(rect))
        /\ rect_capacity(rect) = 0 =>
               /\ DrawnLines = <<>>
               /\ ret = [ok |-> FALSE, rest |-> text]

\* A partial fill: some lines drawn, at least two left over.
C2_Witness ==
    /\ pc = "filled"
    /\ rect_capacity(rect) >= 1
    /\ Len(DrawnLines) = rect_capacity(rect)
    /\ ~ret.ok
    /\ Len(RemainderLines) >= 2

(***************************************************************************)
(* Media markers: "[M#<n>]" and MEDIA_TOKEN_RE = \[M#(\d+)\].              *)
(***************************************************************************)
DigitChars == <<"0", "1", "2", "3", "4", "5", "6", "7", "8", "9">>

IsDigit(ch) == ch \in {"0", "1", "2", "3", "4", "5", "6", "7", "8", "9"}

DigitValue(ch) == (CHOOSE d \in 1..10 : DigitChars[d] = ch) - 1

RECURSIVE int_to_str(_)
\* str(n) for n >= 0
int_to_str(n) ==
    IF n < 10 THEN <<DigitChars[n + 1]>>
    ELSE int_to_str(n \div 10) \o <<DigitChars[(n % 10) + 1]>>

RECURSIVE str_to_int(_, _)
\* int(digits), most significant digit first; acc is the value so far.
str_to_int(ds, acc) ==
    IF ds = <<>> THEN acc
    ELSE str_to_int(Tail(ds), acc * 10 + DigitValue(Head(ds)))

\* f"[M#{i}]"
marker(i) == <<"[", "M", "#">> \o int_to_str(i) \o <<"]">>

RECURSIVE digits_end(_, _)
\* The first position at or after i of s that holds no digit (\d+ is
\* greedy).
digits_end(s, i) ==
    IF i <= Len(s) /\ IsDigit(s[i]) THEN digits_end(s, i + 1) ELSE i

RECURSIVE finditer(_, _)
\* MEDIA_TOKEN_RE.finditer(s), scanning from position i: the
\* non-overlapping matches left to right, each with m.start() (0-based),
\* m.end() and int(m.group(1)).
finditer(s, i) ==
    IF i + 4 > Len(s) THEN <<>>
    ELSE IF s[i] = "[" /\ s[i + 1] = "M" /\ s[i + 2] = "#"
    THEN LET e == digits_end(s, i + 3)
         IN  IF e > i + 3 /\ e <= Len(s) /\ s[e] = "]"
             THEN <<[start |-> i - 1, end |-> e,
                     idx |-> str_to_int(SubSeq(s, i + 3, e - 1), 0)]>>
                  \o finditer(s, e + 1)
             ELSE finditer(s, i + 1)
    ELSE finditer(s, i + 1)

(***************************************************************************)
(* Extraction: extract_items_and_media (generate_report.py) and extract    *)
(* (Bonus.py) scan the sections with the same code.                        *)
(*                                                                         *)
(* A photo or video entry of the JSON is [type, url]: a string ("str"), a  *)
(* dict ("dict", url NULL when it has no "url" key) or anything else.      *)
(* URLs, names, titles and status codes are atoms; comment texts are       *)
(* character sequences.                                                    *)
(***************************************************************************)
\* url = ph if isinstance(ph, str) else (ph.get("url") if isinstance(ph,
\* dict) else None)
media_url(e) ==
    IF e.type = "str" THEN e.url
    ELSE IF e.type = "dict" THEN e.url
    ELSE NULL

\* Python truthiness of a string or None.
Truthy(u) == u # NULL /\ u # ""

\* str.strip() on the cover URLs of the model.
url_strip(u) ==
    CASE u = " " -> ""
      [] u = " c1 " -> "c1"
      [] OTHER -> u

\* str.upper() on the status codes of the model.
upper(code) ==
    CASE code = "d" -> "D"
      [] code = "ni" -> "NI"
      [] OTHER -> code

\* add_media that records the reference before appending the entry
\* (mrefs.append(len(media)); media.append(...)).
add_media_early(st, kind, url) ==
    [st EXCEPT !.media = Append(st.media, [kind |-> kind, url |-> url]),
               !.mrefs = Append(st.mrefs, Len(st.media))]

\* media.append({"kind": kind, "url": url}); mrefs.append(len(media))
add_media(st, kind, url) ==
    [st EXCEPT !.media = Append(st.media, [kind |-> kind, url |-> url]),
               !.mrefs = Append(st.mrefs, Len(st.media) + 1)]

RECURSIVE scan_urls(_, _, _)
\* "for ph in (cmt.get('photos') or [])" and the same loop over videos.
scan_urls(entries, kind, st) ==
    IF entries = <<>> THEN st
    ELSE LET url == media_url(Head(entries))
         IN  scan_urls(Tail(entries), kind,
                       IF Truthy(url) THEN add_media(st, kind, url) ELSE st)

RECURSIVE scan_comments(_, _)
\* "for cmt in (li.get('comments') or [])": st is [paragraphs, mrefs,
\* media].  The comment texts of the model hold no "&", so html.unescape
\* has nothing to replace.
scan_comments(cmts, st) ==
    IF cmts = <<>> THEN st
    ELSE LET cmt == Head(cmts)
             t == strip(cmt.commentText)
             st1 == IF t # <<>>
                    THEN [st EXCEPT !.paragraphs = Append(@, t)]
                    ELSE st
             st2 == scan_urls(cmt.photos, "photo", st1)
             st3 == scan_urls(cmt.videos, "video", st2)
         IN  scan_comments(Tail(cmts), st3)

\* body = "\n\n".join(paragraphs).strip(), then the markers appended.
item_body(paragraphs, mrefs) ==
    LET body == strip(join(paragraphs, <<"\n", "\n">>))
    IN  IF mrefs # <<>>
        THEN strip(body
                   \o (IF body # <<>> THEN <<"\n", "\n">> ELSE <<>>)
                   \o join([i \in 1..Len(mrefs) |-> marker(mrefs[i])],
                           <<" ">>))
        ELSE body

RECURSIVE scan_line_items(_, _, _, _)
\* "for li in (section.get('lineItems') or [])": st is [items, media].
scan_line_items(lis, sname, snum, st) ==
    IF lis = <<>> THEN st
    ELSE LET li == Head(lis)
             c == scan_comments(li.comments,
                                [paragraphs |-> <<>>, mrefs |-> <<>>,
                                 media |-> st.media])
             it == [section |-> sname, sectionNumber |-> snum,
                    title |-> li.title,
                    status |-> upper(li.inspectionStatus),
                    text |-> item_body(c.paragraphs, c.mrefs)]
         IN  scan_line_items(Tail(lis), sname, snum,
                             [items |-> Append(st.items, it),
                              media |-> c.media])

RECURSIVE scan_sections(_, _)
\* "for section in (data.get('sections') or [])"
scan_sections(secs, st) ==
    IF secs = <<>> THEN st
    ELSE scan_sections(Tail(secs),
                       scan_line_items(Head(secs).lineItems,
                                       Head(secs).name,
                                       Head(secs).sectionNumber, st))

\* The cover image, when data["headerImageUrl"] is a non-blank string.
cover_media(d) ==
    IF d.headerImageUrl # NULL /\ url_strip(d.headerImageUrl) # ""
    THEN <<[kind |-> "photo", url |-> url_strip(d.headerImageUrl)]>>
    ELSE <<>>

\* generate_report.py: returns (items, media).
extract_items_and_media(d) ==
    scan_sections(d.sections, [items |-> <<>>, media |-> cover_media(d)])

\* Bonus.py: the items and media part of extract's result.
extract(d) ==
    scan_sections(d.sections, [items |-> <<>>, media |-> cover_media(d)])

(***************************************************************************)
(* fetch_image: the same function in both files.  The network's answer to  *)
(* one request is an outcome: "ok" (status 200, decodable; the decoded     *)
(* size is part of the answer), "http404" (status != 200), "oversize"      *)
(* (content-length over 5 MB), "neterr" (requests.get raises, a timeout    *)
(* included) or "decode_err" (Image.open raises).                          *)
(***************************************************************************)
FetchOutcomes == {"ok", "http404", "oversize", "neterr", "decode_err"}

\* The body of the try block: what it returns, or that it raised.
fetch_image_try(url, outcome, size) ==
    CASE outcome = "neterr" -> [raised |-> TRUE, value |-> NoImg]
      [] outcome = "http404" -> [raised |-> FALSE, value |-> NoImg]
      [] outcome = "oversize" -> [raised |-> FALSE, value |-> NoImg]
      [] outcome = "decode_err" -> [raised |-> TRUE, value |-> NoImg]
      [] OTHER -> [raised |-> FALSE, value |-> <<url, size[1], size[2]>>]

\* fetch_image without its "except Exception: return None".
fetch_image_unguarded(url, outcome, size) ==
    fetch_image_try(url, outcome, size)

\* try: ... except Exception: return None
fetch_image(url, outcome, size) ==
    LET r == fetch_image_try(url, outcome, size)
    IN  IF r.raised THEN [raised |-> FALSE, value |-> NoImg] ELSE r

\* generate_report.py build_media_map: one fetch per photo entry, in list
\* order, on the calling thread; answers[i] is the network's answer to the
\* fetch made for entry i.
build_media_map_seq(m, answers) ==
    [i \in 1..Len(m) |->
        [kind |-> m[i].kind, url |-> m[i].url,
         img |-> IF m[i].kind = "photo"
                 THEN fetch_image(m[i].url, answers[i].outcome,
                                  answers[i].size).value
                 ELSE NoImg]]

(***************************************************************************)
(* Specification SpecExtract: extraction and the sequential                *)
(* build_media_map of generate_report.py, over every bounded document.     *)
(***************************************************************************)
MaxSections == 2
MaxItems == 1

RECURSIVE SeqsUpTo(_, _)
\* The sequences over S of length at most n.
SeqsUpTo(S, n) ==
    IF n = 0 THEN {<<>>}
    ELSE LET shorter == SeqsUpTo(S, n - 1)
         IN  shorter \cup {Append(q, x) : q \in shorter, x \in S}

Str(u) == [type |-> "str", url |-> u]
Dict(u) == [type |-> "dict", url |-> u]

\* Line items: text with one photo; text, a photo given as a dict, a dict
\* without "url" and a video; no comment at all; two comments, the first
\* with no text, an empty photo URL and a video.
LineItemSet ==
    { [inspectionStatus |-> "D", title |-> "Shingles",
       comments |-> <<[commentText |-> <<"a">>,
                       photos |-> <<Str("u1")>>, videos |-> <<>>]>>],
      [inspectionStatus |-> "ni", title |-> "Gutters",
       comments |-> <<[commentText |-> <<" ", "a", " ", "i", "\n">>,
                       photos |-> <<Dict("u2"), Dict(NULL)>>,
                       videos |-> <<Str("v1")>>]>>],
      [inspectionStatus |-> "I", title |-> "Flashing",
       comments |-> <<>>],
      [inspectionStatus |-> "NP", title |-> "Chimney",
       comments |-> <<[commentText |-> <<>>,
                       photos |-> <<Str("")>>, videos |-> <<Dict("v1")>>],
                      [commentText |-> <<"i">>,
                       photos |-> <<Str("u1")>>, videos |-> <<>>]>>] }

SectionSet ==
    {[name |-> "Roofing", sectionNumber |-> "1", lineItems |-> lis] :
        lis \in SeqsUpTo(LineItemSet, MaxItems)}

Docs ==
    {[headerImageUrl |-> c, sections |-> secs] :
        c \in {NULL, " ", " c1 "}, secs \in SeqsUpTo(SectionSet, MaxSections)}

\* The network's answers to the fetches of one run of build_media_map:
\* every fetch answered alike, or every second one failing.
Answer(o) == [outcome |-> o, size |-> <<800, 600>>]

AnswerPatterns(n) ==
    {[i \in 1..n |-> Answer(o)] : o \in {"ok", "http404"}}
    \cup {[i \in 1..n |-> IF i % 2 = 1 THEN Answer("ok")
                          ELSE Answer("neterr")]}

InitExtract ==
    /\ pc = "start"
    /\ data \in Docs
    /\ items = <<>>
    /\ media = <<>>
    /\ media_map = <<>>
    /\ canvas = <<>>
    /\ IdleFlow
    /\ IdlePool
    /\ IdleForm
    /\ IdleLayout

\* items, media = extract_items_and_media(data)
ExtractItemsAndMedia ==
    /\ pc = "start"
    /\ LET r == extract_items_and_media(data)
       IN  items' = r.items /\ media' = r.media
    /\ pc' = "extracted"
    /\ UNCHANGED <<formVars, layoutVars,
                   data, media_map, canvas, flowVars, poolVars>>

\* media_map = build_media_map(media)   (generate_report.py)
BuildMediaMapSeq ==
    /\ pc = "extracted"
    /\ \E answers \in AnswerPatterns(Len(media)) :
           media_map' = build_media_map_seq(media, answers)
    /\ pc' = "mapped"
    /\ UNCHANGED <<formVars, layoutVars,
                   data, items, media, canvas, flowVars, poolVars>>

NextExtract == ExtractItemsAndMedia \/ BuildMediaMapSeq

SpecExtract == InitExtract /\ [][NextExtract]_vars

(***************************************************************************)
(* C3: media indices are 1, 2, 3, ... in first-seen order of one           *)
(* top-to-bottom scan (cover, then per section, line item, comment: photos *)
(* then videos); every marker [M#k] in an item body refers to the k-th     *)
(* entry of the media list, which build_media_map stores under key k; the  *)
(* markers of all bodies, read in extraction order, are strictly           *)
(* increasing, and every index that came from a comment is in exactly one  *)
(* body.                                                                   *)
(***************************************************************************)
RECURSIVE Flatten(_)
Flatten(ss) == IF ss = <<>> THEN <<>> ELSE Head(ss) \o Flatten(Tail(ss))

\* The document's line items, top to bottom.
DocLineItems(d) ==
    Flatten([i \in 1..Len(d.sections) |-> d.sections[i].lineItems])

\* The usable media of entry list es of the given kind, tagged with the
\* ordinal of the line item they belong to.
Usable(es, kind, item) ==
    LET good == SelectSeq(es, LAMBDA e :
                    e.type \in {"str", "dict"} /\ e.url \notin {NULL, ""})
    IN  [i \in 1..Len(good) |->
            [kind |-> kind, url |-> good[i].url, item |-> item]]

\* What a top-to-bottom reading of the document meets: the cover (item 0),
\* then each comment's photos and then its videos.
SeenMedia(d) ==
    LET lis == DocLineItems(d)
        cover == IF d.headerImageUrl \in {NULL, "", " "} THEN <<>>
                 ELSE <<[kind |-> "photo", url |-> "c1", item |-> 0]>>
        ofItem(j) ==
            Flatten([c \in 1..Len(lis[j].comments) |->
                        Usable(lis[j].comments[c].photos, "photo", j)
                        \o Usable(lis[j].comments[c].videos, "video", j)])
    IN  cover \o Flatten([j \in 1..Len(lis) |-> ofItem(j)])

\* The indices of the markers in body s, left to right.
MarkersOf(s) ==
    LET ms == finditer(s, 1) IN [i \in 1..Len(ms) |-> ms[i].idx]

C3_MarkersFollowScanOrder ==
    pc \in {"extracted", "mapped"} =>
        LET seen == SeenMedia(data)
            mk == [j \in 1..Len(items) |-> MarkersOf(items[j].text)]
            all == Flatten(mk)
        IN
        /\ Len(items) = Len(DocLineItems(data))
        /\ media = [k \in 1..Len(seen) |->
                       [kind |-> seen[k].kind, url |-> seen[k].url]]
        /\ \A j \in 1..Len(items) :
               \A i \in 1..Len(mk[j]) :
                   /\ mk[j][i] \in 1..Len(seen)
                   /\ seen[mk[j][i]].item = j
        /\ \A i \in 1..(Len(all) - 1) : all[i] < all[i + 1]
        /\ \A k \in 1..Len(seen) :
               seen[k].item > 0 =>
                   Cardinality({i \in 1..Len(all) : all[i] = k}) = 1
        /\ pc = "mapped" =>
               /\ DOMAIN media_map = 1..Len(seen)
               /\ \A k \in 1..Len(seen) :
                      /\ media_map[k].kind = seen[k].kind
                      /\ media_map[k].url = seen[k].url

\* A cover image shifts the indices; two bodies carry markers, one of them
\* a photo and a video.
C3_Witness ==
    /\ pc = "mapped"
    /\ Len(cover_media(data)) = 1
    /\ Len(media) >= 4
    /\ \E i, j \in 1..Len(items) :
           /\ i < j
           /\ Len(MarkersOf(items[i].text)) >= 2
           /\ MarkersOf(items[j].text) # <<>>
    /\ \E k \in 1..Len(media) : media[k].kind = "video"

(***************************************************************************)
(* The inline renderers: draw_inline_richblock and rich_block of           *)
(* generate_report.py, draw_inline and draw_item_card of Bonus.py.         *)
(*                                                                         *)
(* A drawing call is [op, x, y, s, idx, h]: y is the baseline of a string  *)
(* or label and the bottom edge of an image, s the characters of a text    *)
(* line, idx the media index of a label or image, h the height of an       *)
(* image.  A renderer returns the calls it made and the new cursor.        *)
(***************************************************************************)
INLINE_IMG_MAX_H == 172800
PAGE_W == 612000
PAGE_H == 792000
MARGIN == 54000
CARD_PAD == 10000
GAP == 10000

DrawOp(op, x, y0, s, idx, h) ==
    [op |-> op, x |-> x, y |-> y0, s |-> s, idx |-> idx, h |-> h]

\* c.showPage(); c.setFont(FIXED_FONT, FIXED_SIZE), when brk.
showPage(brk) ==
    IF brk THEN <<DrawOp("showPage", 0, 0, <<>>, 0, 0)>> ELSE <<>>

\* new_page(c, cur_label[0]): the footer and c.showPage(), when brk.
new_page(brk) ==
    IF brk THEN <<DrawOp("new_page", 0, 0, <<>>, 0, 0)>> ELSE <<>>

\* scale = min(width / iw, INLINE_IMG_MAX_H / ih); rw = iw * scale
image_rw(width, img) ==
    IF width * img[3] <= INLINE_IMG_MAX_H * img[2]
    THEN width
    ELSE (INLINE_IMG_MAX_H * img[2]) \div img[3]

\* c.drawImage(img, x, y - rh, width=rw, height=rh, ...): y0 is the bottom
\* edge of the image.
DrawImage(x, y0, idx, rw, rh) ==
    [op |-> "drawImage", x |-> x, y |-> y0, s |-> <<>>, idx |-> idx,
     h |-> rh, w |-> rw]

\* scale = width / iw, whatever the height.
image_rh_by_width(width, img) == (width * img[3]) \div img[2]

\* scale = min(width / iw, INLINE_IMG_MAX_H / ih); rh = ih * scale
image_rh(width, img) ==
    IF width * img[3] <= INLINE_IMG_MAX_H * img[2]
    THEN (width * img[3]) \div img[2]
    ELSE INLINE_IMG_MAX_H

\* url = meta.get("url") or ""; if url: c.linkURL(url, ...): the link
\* target of a video label, kept in the s field of the label.
linkURL(url) == IF Truthy(url) THEN <<url>> ELSE <<>>

RECURSIVE draw_wrapped_lines_nobreak(_, _, _, _, _)
\* The loop of draw_wrapped without its page break.
draw_wrapped_lines_nobreak(ls, x, y0, page_h, ops) ==
    IF ls = <<>> THEN [ops |-> ops, y |-> y0]
    ELSE draw_wrapped_lines_nobreak(Tail(ls), x, y0 - LINE_HEIGHT, page_h,
             ops \o <<DrawOp("drawString", x, y0, Head(ls), 0, 0)>>)

RECURSIVE draw_wrapped_lines(_, _, _, _, _)
\* The loop of draw_wrapped over the wrapped lines ls: the page break
\* under 60, the line, the step down.
draw_wrapped_lines(ls, x, y0, page_h, ops) ==
    IF ls = <<>> THEN [ops |-> ops, y |-> y0]
    ELSE LET brk == y0 < 60000
             y1 == IF brk THEN page_h - 60000 ELSE y0
         IN  draw_wrapped_lines(Tail(ls), x, y1 - LINE_HEIGHT, page_h,
                 ops \o showPage(brk)
                     \o <<DrawOp("drawString", x, y1, Head(ls), 0, 0)>>)

\* draw_wrapped of draw_inline_richblock.
draw_wrapped(chunk, width, x, y0, page_h) ==
    IF chunk = <<>> THEN [ops |-> <<>>, y |-> y0]
    ELSE draw_wrapped_lines(wrap_text(chunk, width), x, y0, page_h, <<>>)

\* The raw URL lines of a video, printed when SHOW_VIDEO_URLS is set; the
\* URLs of the model fit on one line, drawn as the line <<url>>.
draw_video_url(show, url, x, y0, page_h) ==
    IF show /\ Truthy(url)
    THEN draw_wrapped_lines(<<(<<url>>)>>, x, y0, page_h, <<>>)
    ELSE [ops |-> <<>>, y |-> y0]

\* draw_inline_richblock at one token [M#idx]: the page break under 70 and
\* the branch on media_map.get(idx).
draw_token(idx, width, x, y0, page_h, mm, show) ==
    LET brk == y0 < 70000
        y1 == IF brk THEN page_h - 60000 ELSE y0
    IN  IF idx \notin DOMAIN mm
        THEN [ops |-> showPage(brk)
                      \o <<DrawOp("missing", x, y1, <<>>, idx, 0)>>,
              y |-> y1 - LINE_HEIGHT]
        ELSE IF mm[idx].kind = "photo" /\ mm[idx].img # NoImg
        THEN LET rh == image_rh(width, mm[idx].img)
                 brk2 == y1 - rh - 16000 < 60000
                 y2 == IF brk2 THEN page_h - 60000 ELSE y1
             IN  [ops |-> showPage(brk) \o showPage(brk2)
                          \o <<DrawOp("photo", x, y2, <<>>, idx, 0),
                               DrawImage(x, y2 - 12000 - rh, idx,
                                         image_rw(width, mm[idx].img),
                                         rh)>>,
                  y |-> y2 - 12000 - rh - 8000]
        ELSE IF mm[idx].kind = "video"
        THEN LET brk2 == y1 < 70000
                 y2 == IF brk2 THEN page_h - 60000 ELSE y1
                 u == draw_video_url(show, mm[idx].url, x,
                                     y2 - LINE_HEIGHT, page_h)
             IN  [ops |-> showPage(brk) \o showPage(brk2)
                          \o <<DrawOp("video", x, y2,
                                      linkURL(mm[idx].url), idx, 0)>>
                          \o u.ops,
                  y |-> u.y]
        ELSE [ops |-> showPage(brk)
                      \o <<DrawOp("unavailable", x, y1, <<>>, idx, 0)>>,
              y |-> y1 - LINE_HEIGHT]

RECURSIVE draw_spans(_, _, _, _, _, _, _, _, _, _)
\* "for m in MEDIA_TOKEN_RE.finditer(text)" from match k of ms on, then the
\* tail: pos is the end of the previous match.
draw_spans(txt, ms, k, pos, width, x, y0, page_h, mm, show) ==
    IF k > Len(ms)
    THEN draw_wrapped(SubSeq(txt, pos + 1, Len(txt)), width, x, y0, page_h)
    ELSE LET pre == draw_wrapped(SubSeq(txt, pos + 1, ms[k].start),
                                 width, x, y0, page_h)
             tok == draw_token(ms[k].idx, width, x, pre.y, page_h, mm, show)
             rest == draw_spans(txt, ms, k + 1, ms[k].end, width, x,
                                tok.y, page_h, mm, show)
         IN  [ops |-> pre.ops \o tok.ops \o rest.ops, y |-> rest.y]

\* draw_inline_richblock without its token loop: the whole text, markers
\* included, goes through draw_wrapped.
draw_inline_richblock_plain(txt, width, x, y0, page_h, mm, show) ==
    draw_wrapped(txt, width, x, y0, page_h)

draw_inline_richblock(txt, width, x, y0, page_h, mm, show) ==
    draw_spans(txt, finditer(txt, 1), 1, 0, width, x, y0, page_h, mm, show)

RECURSIVE rich_block_paras(_, _, _, _, _, _, _)
\* The loop of rich_block over the paragraphs: a blank paragraph only
\* moves the cursor (after a page break under 60).
rich_block_paras(paras, width, x, y0, page_h, mm, show) ==
    IF paras = <<>> THEN [ops |-> <<>>, y |-> y0]
    ELSE LET one ==
                 IF strip(Head(paras)) = <<>>
                 THEN [ops |-> showPage(y0 < 60000),
                       y |-> (IF y0 < 60000 THEN page_h - 60000 ELSE y0)
                             - LINE_HEIGHT]
                 ELSE draw_inline_richblock(Head(paras), width, x, y0,
                                            page_h, mm, show)
             rest == rich_block_paras(Tail(paras), width, x, one.y,
                                      page_h, mm, show)
         IN  [ops |-> one.ops \o rest.ops, y |-> rest.y]

\* rich_block that draws the text as it is, markers included.
rich_block_plain(txt, width, x, y0, page_h, mm, show) ==
    draw_wrapped(txt, width, x, y0, page_h)

rich_block(txt, width, x, y0, page_h, mm, show) ==
    rich_block_paras(split(txt, "\n"), width, x, y0, page_h, mm, show)

RECURSIVE draw_inline_lines(_, _, _, _)
\* The loop of draw_wrapped in Bonus.draw_inline: the page break under 72,
\* the line, the step down by LH.
draw_inline_lines(ls, x, y0, ops) ==
    IF ls = <<>> THEN [ops |-> ops, y |-> y0]
    ELSE LET brk == y0 < 72000
             y1 == IF brk THEN PAGE_H - MARGIN ELSE y0
         IN  draw_inline_lines(Tail(ls), x, y1 - LH,
                 ops \o new_page(brk)
                     \o <<DrawOp("drawString", x, y1, Head(ls), 0, 0)>>)

\* draw_wrapped of Bonus.draw_inline.
draw_inline_wrapped(chunk, width, x, y0) ==
    IF chunk = <<>> THEN [ops |-> <<>>, y |-> y0]
    ELSE draw_inline_lines(wrap_lines(chunk, width, FS), x, y0, <<>>)

\* Bonus.draw_inline at one token: the page break under 88 and the branch.
draw_inline_token(idx, width, x, y0, mm, render_media) ==
    LET brk == y0 < 88000
        y1 == IF brk THEN PAGE_H - MARGIN ELSE y0
    IN  IF idx \notin DOMAIN mm
        THEN [ops |-> new_page(brk)
                      \o <<DrawOp("missing", x, y1, <<>>, idx, 0)>>,
              y |-> y1 - LH]
        ELSE IF mm[idx].kind = "photo" /\ mm[idx].img # NoImg
        THEN LET rh == image_rh(width, mm[idx].img)
                 brk2 == y1 - rh - 16000 < 72000
                 y2 == IF brk2 THEN PAGE_H - MARGIN ELSE y1
             IN  [ops |-> new_page(brk) \o new_page(brk2)
                          \o <<DrawOp("photo", x, y2, <<>>, idx, 0)>>
                          \o (IF render_media
                              THEN <<DrawImage(x, y2 - 12000 - rh, idx,
                                               image_rw(width, mm[idx].img),
                                               rh)>>
                              ELSE <<>>),
                  y |-> y2 - 12000 - rh - 8000]
        ELSE IF mm[idx].kind = "video"
        THEN [ops |-> new_page(brk)
                      \o <<DrawOp("video", x, y1, linkURL(mm[idx].url),
                                   idx, 0)>>,
              y |-> y1 - LH]
        ELSE [ops |-> new_page(brk)
                      \o <<DrawOp("unavailable", x, y1, <<>>, idx, 0)>>,
              y |-> y1 - LH]

RECURSIVE draw_inline_spans(_, _, _, _, _, _, _, _, _)
\* The token loop of Bonus.draw_inline from match k on, then the tail.
draw_inline_spans(txt, ms, k, pos, width, x, y0, mm, render_media) ==
    IF k > Len(ms)
    THEN draw_inline_wrapped(SubSeq(txt, pos + 1, Len(txt)), width, x, y0)
    ELSE LET pre == draw_inline_wrapped(SubSeq(txt, pos + 1, ms[k].start),
                                        width, x, y0)
             tok == draw_inline_token(ms[k].idx, width, x, pre.y, mm,
                                      render_media)
             rest == draw_inline_spans(txt, ms, k + 1, ms[k].end, width, x,
                                       tok.y, mm, render_media)
         IN  [ops |-> pre.ops \o tok.ops \o rest.ops, y |-> rest.y]

draw_inline(txt, x, y0, width, mm, render_media) ==
    draw_inline_spans(txt, finditer(txt, 1), 1, 0, width, x, y0, mm,
                      render_media)

\* draw_item_card: the card (with its own page break), the title, then the
\* body through draw_inline; title_lines is len(wrap_lines(title, ...)).
draw_item_card(title_lines, txt, x, y0, width, mm, render_media) ==
    LET content_h == LH * Max(1, title_lines) + 10000
        brk == y0 - (content_h + 10000) < 72000
        y1 == IF brk THEN PAGE_H - MARGIN ELSE y0
        ty == y1 - CARD_PAD - 2000
        head == new_page(brk)
                \o <<DrawOp("card", x, y1 - (content_h + 10000), <<>>, 0,
                            content_h + 10000),
                     DrawOp("title", x + 6000 + CARD_PAD, ty, <<>>, 0, 0)>>
        body == IF txt # <<>>
                THEN draw_inline(txt, x + 6000 + CARD_PAD, ty - LH,
                                 width - 6000 - 2 * CARD_PAD, mm,
                                 render_media)
                ELSE [ops |-> <<>>, y |-> ty - LH]
    IN  [ops |-> head \o body.ops, y |-> body.y - GAP]

(***************************************************************************)
(* Bonus.py build_media_map: the photo fetches run on a thread pool, the   *)
(* calling thread collects them with as_completed.                         *)
(***************************************************************************)
MAX_MEDIA_THREADS == 12

\* photo_targets without setdefault: a new target for every index.
setdefault_append_new(pt, url, i) == Append(pt, [url |-> url, idxs |-> <<i>>])

\* photo_targets.setdefault(url, []).append(i); the dict keeps its keys in
\* insertion order, so it is a sequence of [url, idxs].
setdefault_append(pt, url, i) ==
    IF \E j \in 1..Len(pt) : pt[j].url = url
    THEN [j \in 1..Len(pt) |->
             IF pt[j].url = url
             THEN [pt[j] EXCEPT !.idxs = Append(@, i)]
             ELSE pt[j]]
    ELSE Append(pt, [url |-> url, idxs |-> <<i>>])

RECURSIVE build_photo_targets(_, _, _)
\* The "for i, m in enumerate(media, start=1)" loop, from index i on.
build_photo_targets(m, i, pt) ==
    IF i > Len(m) THEN pt
    ELSE build_photo_targets(m, i + 1,
             IF m[i].kind = "photo" /\ Truthy(m[i].url)
             THEN setdefault_append(pt, m[i].url, i)
             ELSE pt)

\* out[i] = {"kind": kind, "url": url, "img": None}
initial_entries(m) ==
    [i \in 1..Len(m) |-> [kind |-> m[i].kind, url |-> m[i].url,
                          img |-> NoImg]]

\* The loop variable url taken from the position of the future in the
\* submission order, as if futures completed in the order submitted.
completed_url_by_position(f) == photo_targets[Cardinality(yielded) + 1].url

\* url = future_map[future]
completed_url(f) == future_map[f].url

\* The keys of out written for a completed URL: every key of out.
write_targets_all(url) == [i \in 1..Len(media_map) |-> i]

\* The keys of out written for a completed URL: photo_targets[url].
write_targets(url) ==
    (CHOOSE t \in {photo_targets[j] : j \in 1..Len(photo_targets)} :
        t.url = url).idxs

\* The branch draw_inline (and draw_inline_richblock) takes at a marker
\* [M#idx]: meta = media_map.get(idx), then the tests on kind and img.
token_outcome(mm, idx) ==
    IF idx \notin DOMAIN mm THEN "missing"
    ELSE IF mm[idx].kind = "photo" /\ mm[idx].img # NoImg THEN "photo"
    ELSE IF mm[idx].kind = "video" THEN "video"
    ELSE "unavailable"

\* The markers of the item bodies in drawing order: TOKEN_RE.finditer on
\* each item's text.
item_tokens(its) ==
    Flatten([j \in 1..Len(its) |-> finditer(its[j].text, 1)])

\* What the first pass of doc() draws for the markers toks: one call per
\* marker, by the branch taken.
render_tokens(toks, mm) ==
    [i \in 1..Len(toks) |->
        [op |-> token_outcome(mm, toks[i].idx), idx |-> toks[i].idx]]

(***************************************************************************)
(* Specification SpecMedia: render_report up to its first drawing pass.    *)
(***************************************************************************)
MaxPhotos == 2

MediaDocs ==
    {[headerImageUrl |-> c,
      sections |-> <<[name |-> "Roofing", sectionNumber |-> "1",
                      lineItems |->
                          <<[inspectionStatus |-> "D", title |-> "Shingles",
                             comments |-> <<[commentText |-> <<"a">>,
                                             photos |-> ps,
                                             videos |-> vs]>>]>>]>>] :
        c \in {NULL, " c1 "},
        ps \in SeqsUpTo({Str("u1"), Str("u2")}, MaxPhotos),
        vs \in {<<>>, <<Str("v1")>>}}

MediaAnswers == {[outcome |-> o, size |-> <<800, 600>>] : o \in FetchOutcomes}

Unasked == [outcome |-> "unasked", size |-> <<0, 0>>]

InitMedia ==
    /\ pc = "start"
    /\ data \in MediaDocs
    /\ items = <<>>
    /\ media = <<>>
    /\ media_map = <<>>
    /\ canvas = <<>>
    /\ IdleFlow
    /\ IdlePool
    /\ IdleForm
    /\ IdleLayout

\* head, items, media = extract(data)
Extract ==
    /\ pc = "start"
    /\ LET r == extract(data)
       IN  items' = r.items /\ media' = r.media
    /\ pc' = "extracted"
    /\ UNCHANGED <<formVars, layoutVars,
                   data, media_map, canvas, flowVars, poolVars>>

\* build_media_map up to the creation of the pool: the entries of out,
\* photo_targets, and the two early returns.
BuildEntries ==
    /\ pc = "extracted"
    /\ media_map' = initial_entries(media)
    /\ writes' = [i \in 1..Len(media) |->
                     [key |-> i, thread |-> "main", field |-> "entry"]]
    /\ LET pt == build_photo_targets(media, 1, <<>>)
       IN  /\ photo_targets' = pt
           /\ worker' = [w \in 1..Min(MAX_MEDIA_THREADS, Len(pt)) |-> 0]
           /\ pc' = IF media = <<>> \/ pt = <<>> THEN "returned"
                    ELSE "submit"
    /\ UNCHANGED <<formVars, layoutVars,
                   data, items, media, canvas, flowVars,
                   net, future_map, queue, yielded>>

\* pool.submit(fetch_image, url), for the next url of photo_targets.
Submit ==
    /\ pc = "submit"
    /\ LET f == Len(future_map) + 1
       IN  /\ future_map' = Append(future_map,
                               [url |-> photo_targets[f].url,
                                state |-> "pending",
                                raised |-> FALSE, value |-> NoImg])
           /\ net' = Append(net, Unasked)
           /\ queue' = Append(queue, f)
           /\ pc' = IF f = Len(photo_targets) THEN "as_completed"
                    ELSE "submit"
    /\ UNCHANGED <<formVars, layoutVars,
                   data, items, media, media_map, canvas, flowVars,
                   photo_targets, worker, yielded, writes>>

\* An idle pool thread takes the oldest queued call and sends the request.
WorkerTake(w) ==
    /\ worker[w] = 0
    /\ queue # <<>>
    /\ worker' = [worker EXCEPT ![w] = Head(queue)]
    /\ queue' = Tail(queue)
    /\ future_map' = [future_map EXCEPT ![Head(queue)].state = "running"]
    /\ UNCHANGED <<formVars, layoutVars,
                   pc, data, items, media, media_map, canvas, flowVars,
                   net, photo_targets, yielded, writes>>

\* The network answers (or the request times out) and fetch_image ends:
\* the thread sets the future's result, or its exception.
WorkerFinish(w) ==
    /\ worker[w] # 0
    /\ \E a \in MediaAnswers :
           LET f == worker[w]
               r == fetch_image(future_map[f].url, a.outcome, a.size)
           IN  /\ net' = [net EXCEPT ![f] = a]
               /\ future_map' = [future_map EXCEPT
                                    ![f].state = "finished",
                                    ![f].raised = r.raised,
                                    ![f].value = r.value]
    /\ worker' = [worker EXCEPT ![w] = 0]
    /\ UNCHANGED <<formVars, layoutVars,
                   pc, data, items, media, media_map, canvas, flowVars,
                   photo_targets, queue, yielded, writes>>

\* One iteration of "for future in as_completed(future_map)": any finished
\* future not yet handed out; its image goes to every index of its URL.
AsCompletedNext ==
    /\ pc = "as_completed"
    /\ \E f \in 1..Len(future_map) :
           /\ future_map[f].state = "finished"
           /\ f \notin yielded
           /\ LET url == completed_url(f)
                  img == IF future_map[f].raised THEN NoImg
                         ELSE future_map[f].value
                  idxs == write_targets(url)
              IN  /\ media_map' =
                         [k \in 1..Len(media_map) |->
                             IF \E i \in 1..Len(idxs) : idxs[i] = k
                             THEN [media_map[k] EXCEPT !.img = img]
                             ELSE media_map[k]]
                  /\ writes' = writes \o
                         [i \in 1..Len(idxs) |->
                             [key |-> idxs[i], thread |-> "main",
                              field |-> "img"]]
           /\ yielded' = yielded \cup {f}
    /\ UNCHANGED <<formVars, layoutVars,
                   pc, data, items, media, canvas, flowVars,
                   net, photo_targets, future_map, queue, worker>>

\* The loop leaves after its first iteration.
AsCompletedEndEarly ==
    /\ pc = "as_completed"
    /\ yielded # {}
    /\ pc' = "shutdown"
    /\ UNCHANGED <<formVars, layoutVars,
                   data, items, media, media_map, canvas, flowVars,
                   poolVars>>

\* as_completed is exhausted: every future has been handed out.
AsCompletedEnd ==
    /\ pc = "as_completed"
    /\ yielded = 1..Len(future_map)
    /\ pc' = "shutdown"
    /\ UNCHANGED <<formVars, layoutVars,
                   data, items, media, media_map, canvas, flowVars,
                   poolVars>>

\* The end of the with block: shutdown(wait=True) returns once the queue
\* is empty and every thread is idle; build_media_map returns out.
PoolExit ==
    /\ pc = "shutdown"
    /\ queue = <<>>
    /\ \A w \in 1..Len(worker) : worker[w] = 0
    /\ pc' = "returned"
    /\ UNCHANGED <<formVars, layoutVars,
                   data, items, media, media_map, canvas, flowVars,
                   poolVars>>

\* first_pass_buf = doc(True, render_media=True): the drawing calls that
\* read media_map.
RenderFirstPass ==
    /\ pc = "returned"
    /\ \E toks \in {item_tokens(items)} :
           canvas' = <<[op |-> "cover", idx |-> 0]>>
                     \o render_tokens(toks, media_map)
    /\ pc' = "done"
    /\ UNCHANGED <<formVars, layoutVars,
                   data, items, media, media_map, flowVars, poolVars>>

NextMedia ==
    \/ Extract
    \/ BuildEntries
    \/ Submit
    \/ \E w \in 1..Len(worker) : WorkerTake(w)
    \/ \E w \in 1..Len(worker) : WorkerFinish(w)
    \/ AsCompletedNext
    \/ AsCompletedEnd
    \/ PoolExit
    \/ RenderFirstPass

SpecMedia == InitMedia /\ [][NextMedia]_vars

(***************************************************************************)
(* Claims about the parallel fetch phase (SpecMedia).                      *)
(***************************************************************************)
\* The media of a document of MediaDocs in scan order: the cover first,
\* then the comment's photos, then its videos.
ScanOrder(d) ==
    LET cmt == d.sections[1].lineItems[1].comments[1]
    IN  (IF d.headerImageUrl = " c1 "
         THEN <<[kind |-> "photo", url |-> "c1"]>>
         ELSE <<>>)
        \o [i \in 1..Len(cmt.photos) |->
               [kind |-> "photo", url |-> cmt.photos[i].url]]
        \o [i \in 1..Len(cmt.videos) |->
               [kind |-> "video", url |-> cmt.videos[i].url]]

\* The result of the fetch of a URL: the value of the future submitted for
\* it, computed from what the network answered to that request.
FetchedFor(url) ==
    LET f == CHOOSE g \in 1..Len(future_map) : future_map[g].url = url
    IN  IF net[f].outcome = "ok"
        THEN <<url, net[f].size[1], net[f].size[2]>>
        ELSE NoImg

Returned == pc \in {"returned", "done"}

ImgWrites == SelectSeq(writes, LAMBDA w : w.field = "img")

\* C4: whatever the order in which the fetches complete, the mapping that
\* build_media_map returns has, under k, the kind and URL of the k-th media
\* item of the scan and, for a photo, the result of fetching that URL.
C4_MapIndependentOfCompletionOrder ==
    Returned =>
        LET scan == ScanOrder(data)
        IN  /\ DOMAIN media_map = 1..Len(scan)
            /\ \A k \in 1..Len(scan) :
                   /\ media_map[k].kind = scan[k].kind
                   /\ media_map[k].url = scan[k].url
                   /\ media_map[k].img =
                          IF scan[k].kind = "photo"
                          THEN FetchedFor(scan[k].url)
                          ELSE NoImg

\* Two photos with different images, returned after the fetch of the
\* higher index completed first.
C4_Witness ==
    /\ Returned
    /\ \E i, j \in 1..Len(ImgWrites) :
           /\ i < j
           /\ ImgWrites[i].key > ImgWrites[j].key
           /\ media_map[ImgWrites[i].key].img # NoImg
           /\ media_map[ImgWrites[j].key].img # NoImg
           /\ media_map[ImgWrites[i].key].img
                  # media_map[ImgWrites[j].key].img

\* A step of the pool phase of build_media_map, by the calling thread or
\* by a pool thread.
PoolPhaseStep ==
    \/ Submit
    \/ \E w \in 1..Len(worker) : WorkerTake(w)
    \/ \E w \in 1..Len(worker) : WorkerFinish(w)
    \/ AsCompletedNext
    \/ AsCompletedEnd
    \/ PoolExit

\* C5: a failing photo fetch never raises: the future of fetch_image ends
\* with a null value and no exception, the mapping returned holds the
\* future's value (null for a failure) under each index of its URL and an
\* entry for every media item, and build_media_map is never stuck between
\* its first submit and its return, after which the first pass is drawn.
C5_FetchFailureNeverRaises ==
    /\ \A f \in 1..Len(future_map) :
           future_map[f].state = "finished" =>
               /\ ~future_map[f].raised
               /\ net[f].outcome # "ok" => future_map[f].value = NoImg
    /\ Returned =>
           /\ DOMAIN media_map = 1..Len(media)
           /\ \A f \in 1..Len(future_map), k \in 1..Len(media) :
                  /\ media[k].kind = "photo"
                  /\ media[k].url = future_map[f].url
                  => media_map[k].img = future_map[f].value
    /\ pc \in {"submit", "as_completed", "shutdown"} => ENABLED PoolPhaseStep
    /\ pc = "done" => canvas # <<>>

\* A run that was rendered although one fetch failed with a network error
\* and another one succeeded.
C5_Witness ==
    /\ pc = "done"
    /\ \E f, g \in 1..Len(future_map) :
           /\ net[f].outcome = "neterr"
           /\ net[g].outcome = "ok"
    /\ \E i \in 1..Len(canvas) : canvas[i].op = "unavailable"
    /\ \E i \in 1..Len(canvas) : canvas[i].op = "photo"

\* C9: no drawing call runs, and build_media_map has not returned, before
\* every URL of photo_targets was submitted, every future has finished and
\* was handed out by as_completed, no call is queued or running, and the
\* mapping holds every future's value.
C9_NoRenderBeforeFetchesComplete ==
    (canvas # <<>> \/ Returned) =>
        /\ Len(future_map) = Len(photo_targets)
        /\ \A f \in 1..Len(future_map) : future_map[f].state = "finished"
        /\ yielded = 1..Len(future_map)
        /\ queue = <<>>
        /\ \A w \in 1..Len(worker) : worker[w] = 0
        /\ \A f \in 1..Len(future_map) :
               \A i \in 1..Len(photo_targets[f].idxs) :
                   media_map[photo_targets[f].idxs[i]].img
                       = future_map[f].value

\* The first pass was drawn, with a photo inline, after two fetches of
\* which the second submitted was handed out first.
C9_Witness ==
    /\ canvas # <<>>
    /\ Len(future_map) = 2
    /\ ImgWrites[1].key = photo_targets[2].idxs[1]
    /\ \E i \in 1..Len(canvas) : canvas[i].op = "photo"

\* C10 as stated: every key of the mapping is written exactly once in the
\* parallel phase, by a worker thread.
C10_Original ==
    Returned =>
        \A k \in 1..Len(media_map) :
            /\ Cardinality({i \in 1..Len(ImgWrites) :
                               ImgWrites[i].key = k}) = 1
            /\ \A i \in 1..Len(ImgWrites) :
                   ImgWrites[i].key = k => ImgWrites[i].thread # "main"

\* C10: every write of the mapping is made by the calling thread; the img
\* field of a key is written at most once, exactly once for a photo with a
\* URL when build_media_map returns, and never for a video.
C10_WritesByCallingThreadOnce ==
    /\ \A i \in 1..Len(writes) : writes[i].thread = "main"
    /\ \A k \in 1..Len(media_map) :
           LET n == Cardinality({i \in 1..Len(ImgWrites) :
                                    ImgWrites[i].key = k})
           IN  /\ n <= 1
               /\ media_map[k].kind # "photo" => n = 0
               /\ (Returned /\ media_map[k].kind = "photo"
                            /\ Truthy(media_map[k].url)) => n = 1

\* Three keys, two of them sharing a URL, all written while the pool ran.
C10_Witness ==
    /\ Returned
    /\ Len(ImgWrites) = 3
    /\ Len(future_map) = 2

(***************************************************************************)
(* generate_report.py fill_trec_form.                                      *)
(*                                                                         *)
(* An annotation of the template is [page, ft, idx, rect, on_name, V,      *)
(* removed]: ft is "Tx" or "Btn", idx the number n of a name               *)
(* "CheckBox1[n]" (-1 for any other name), on_name the first key of        *)
(* /AP /N other than /Off (NULL when there is none), V the value written   *)
(* to /V and /AS ("unset" while the template's own value stands).          *)
(***************************************************************************)
order == <<"I", "NI", "NP", "D">>

\* Python's order on pairs (tuples of two numbers).
tuple_less(a, b) == a[1] < b[1] \/ (a[1] = b[1] /\ a[2] < b[2])

\* seq.sort(key=...), with key[i] the key of seq[i]: list.sort is stable, so
\* an element comes before another when its key is smaller, or equal and
\* it was first.
sorted_by(seq, key) ==
    LET n == Len(seq)
        before(i, j) == \/ tuple_less(key[i], key[j])
                        \/ (~tuple_less(key[j], key[i]) /\ i < j)
        rank(j) == Cardinality({i \in 1..n : i # j /\ before(i, j)}) + 1
    IN  [r \in 1..n |-> seq[CHOOSE j \in 1..n : rank(j) = r]]

\* checkboxes.sort(key=lambda t: (t[0], t[1])) left out.
sort_checkboxes_none(ws, cbs) == cbs

\* checkboxes.sort(key=lambda t: (t[0], t[1]))
sort_checkboxes(ws, cbs) ==
    sorted_by(cbs, [i \in 1..Len(cbs) |->
                       <<ws[cbs[i]].page, ws[cbs[i]].idx>>])

\* comment_fields.sort(...) left out: the boxes stay in /Annots order.
sort_comment_fields_none(ws, cfs) == cfs

\* comment_fields.sort(key=lambda t: (t[0], -rect_coords(t[1])["top"]))
sort_comment_fields(ws, cfs) ==
    sorted_by(cfs, [i \in 1..Len(cfs) |->
                       <<ws[cfs[i]].page,
                         0 - rect_coords(ws[cfs[i]].rect).top>>])

\* wpx >= 300 and hpx >= 50 and pidx in (2, 3, 4, 5); a /Tx field in the
\* header band of page 0 is skipped before, and page 0 is not in the list.
is_comment_box(w) ==
    LET rc == rect_coords(w.rect)
    IN  /\ w.ft = "Tx"
        /\ rc.right - rc.left >= 300000
        /\ rc.top - rc.bottom >= 50000
        /\ w.page \in {2, 3, 4, 5}

\* elif ftype == "/Btn" and "CheckBox1[" in name_str: if m: ...
is_checkbox(w) == w.ft = "Btn" /\ w.idx >= 0

RECURSIVE collect_widgets(_, _, _)
\* The loop over the pages and their /Annots, from annotation i on: acc is
\* [checkboxes, comment_fields], lists of positions in ws.
collect_widgets(ws, i, acc) ==
    IF i > Len(ws) THEN acc
    ELSE collect_widgets(ws, i + 1,
             IF is_comment_box(ws[i])
             THEN [acc EXCEPT !.comment_fields = Append(@, i)]
             ELSE IF is_checkbox(ws[i])
             THEN [acc EXCEPT !.checkboxes = Append(@, i)]
             ELSE acc)

\* The inner loop "for j, code in enumerate(order)" on the group grp.
set_group(ws, grp, status) ==
    [i \in 1..Len(ws) |->
        IF \E j \in 1..4 : grp[j] = i
        THEN LET j == CHOOSE k \in 1..4 : grp[k] = i
             IN  [ws[i] EXCEPT !.V =
                     IF status = order[j] /\ ws[i].on_name # NULL
                     THEN ws[i].on_name
                     ELSE "/Off"]
        ELSE ws[i]]

RECURSIVE set_checkboxes(_, _, _, _, _)
\* "for it in items: if idx + 4 > len(checkboxes): break ..." from item k.
set_checkboxes(ws, cbs, its, k, idx) ==
    IF k > Len(its) \/ idx + 4 > Len(cbs) THEN ws
    ELSE set_checkboxes(
             set_group(ws, SubSeq(cbs, idx + 1, idx + 4), its[k].status),
             cbs, its, k + 1, idx + 4)

\* Only the loop that binds the comments: the annotation of each bound
\* comment box leaves /Annots, every other annotation stays.
remove_tx_widgets_bound(ws, cfs, max_bind) ==
    [i \in 1..Len(ws) |->
        IF \E k \in 1..max_bind : cfs[k] = i
        THEN [ws[i] EXCEPT !.removed = TRUE]
        ELSE ws[i]]

\* The annotation lists after the binding loop ("x != aref") and the loop
\* "Remove any remaining /Tx widgets": an annotation is kept if and only
\* if its /FT is not /Tx.
remove_tx_widgets(ws, cfs, max_bind) ==
    [i \in 1..Len(ws) |->
        IF (\E k \in 1..max_bind : cfs[k] = i) \/ ws[i].ft = "Tx"
        THEN [ws[i] EXCEPT !.removed = TRUE]
        ELSE ws[i]]

\* An overlay loop that never adds an overflow entry.
needs_appendix_never(r) == FALSE

\* if (not ok) and rest.strip()
needs_appendix(r) == ~r.ok /\ strip(r.rest) # <<>>

RECURSIVE render_overlays(_, _, _, _, _, _)
\* The overlays of the bound items i..max_bind, in binding order (which is
\* page order): acc is [canvas, overflow].
render_overlays(ws, cfs, its, i, max_bind, acc) ==
    IF i > max_bind THEN acc
    ELSE LET r == draw_text_in_rect(ws[cfs[i]].rect, its[i].text)
         IN  render_overlays(ws, cfs, its, i + 1, max_bind,
                 [canvas |-> Append(acc.canvas,
                                 [kind |-> "field", page |-> ws[cfs[i]].page,
                                  item |-> i, ops |-> r.ops]),
                  overflow |->
                      IF needs_appendix(r)
                      THEN Append(acc.overflow,
                               [section |-> its[i].section,
                                sectionNumber |-> its[i].sectionNumber,
                                title |-> its[i].title,
                                text |-> r.rest])
                      ELSE acc.overflow])

\* head = " - ".join(...) is not empty.
has_head(it) == it.sectionNumber # "" \/ it.section # "" \/ it.title # ""

\* draw_inline_richblock(c, head, ...): the heads of the model fit on one
\* line and hold no marker; the line is <<sectionNumber, section, title>>.
draw_head(it, x, y0, page_h) ==
    IF has_head(it)
    THEN draw_wrapped_lines(<<(<<it.sectionNumber, it.section, it.title>>)>>,
                            x, y0, page_h, <<>>)
    ELSE [ops |-> <<>>, y |-> y0]

RECURSIVE render_appendix(_, _, _, _, _, _)
\* "for it in overflow" from entry k on: the head, the text, the gap.
render_appendix(ovf, k, y0, mm, show, acc) ==
    IF k > Len(ovf) THEN [canvas |-> acc, y |-> y0]
    ELSE LET it == ovf[k]
             h == draw_head(it, 60000, y0, PAGE_H)
             b == IF it.text # <<>>
                  THEN rich_block(it.text, PAGE_W - 120000, 60000, h.y,
                                  PAGE_H, mm, show)
                  ELSE [ops |-> <<>>, y |-> h.y]
         IN  render_appendix(ovf, k + 1, b.y - LINE_HEIGHT \div 2, mm, show,
                 Append(acc, [kind |-> "appendix", page |-> 0, item |-> k,
                              ops |-> h.ops \o b.ops]))

(***************************************************************************)
(* Specification SpecInline: the cursor of the appendix of                 *)
(* generate_report.py ("appendix") or of a section of Bonus.py ("cards")   *)
(* over a sequence of renderer calls.  canvas holds the drawing calls of   *)
(* the last renderer call.                                                 *)
(***************************************************************************)
MaxCalls == 2

\* The pieces of the rendered texts: words, and markers of a photo that was
\* fetched (1), a photo that was not (2), a video (3), a tall photo (4),
\* a wide photo (5) and an index the map does not hold (9).
Pieces ==
    {<<"a">>, <<"a", " ", "i">>, marker(1), marker(2), marker(3),
     marker(4), marker(5), marker(9)}

\* The texts of one renderer call: a piece, or spans around tokens.
InlineTexts ==
    Pieces \cup
    {<<"a", " ">> \o marker(1) \o <<" ", "i", " ">> \o marker(3),
     marker(2) \o marker(4) \o <<" ", "a">>}

\* The paragraphs of one rich_block call, around a separator.
BlockParas == {<<"a">>, marker(1), <<"a", " ">> \o marker(3)}

Separators == {<<"\n">>, <<"\n", "\n">>, <<"\n", " ", "\n">>}

InlineMediaMap ==
    <<[kind |-> "photo", url |-> "u1", img |-> <<"u1", 800, 600>>],
      [kind |-> "photo", url |-> "u2", img |-> NoImg],
      [kind |-> "video", url |-> "v1", img |-> NoImg],
      [kind |-> "photo", url |-> "u4", img |-> <<"u4", 300, 900>>],
      [kind |-> "photo", url |-> "u5", img |-> <<"u5", 800, 100>>]>>

StartYs == {PAGE_H - 60000, 250000, 100000, 71000, 60000, 59000}

InitInline ==
    /\ pc \in {"appendix", "cards"}
    /\ cur_y \in StartYs
    /\ SHOW_VIDEO_URLS \in BOOLEAN
    /\ calls = 0
    /\ media_map = InlineMediaMap
    /\ data = [headerImageUrl |-> NULL, sections |-> <<>>]
    /\ items = <<>>
    /\ media = <<>>
    /\ canvas = <<>>
    /\ IdleFlow
    /\ IdlePool
    /\ IdleForm

\* y = draw_inline_richblock(c, head, text_width, x, y, W, H, media_map)
DrawInlineRichblock ==
    /\ pc = "appendix"
    /\ calls < MaxCalls
    /\ \E t \in InlineTexts :
           LET r == draw_inline_richblock(t, PAGE_W - 120000, 60000, cur_y,
                                          PAGE_H, media_map, SHOW_VIDEO_URLS)
           IN  /\ text' = t
               /\ canvas' = r.ops
               /\ cur_y' = r.y
    /\ calls' = calls + 1
    /\ UNCHANGED <<pc, max_width, lines, rect, ret, docVars, poolVars,
                   formVars, SHOW_VIDEO_URLS>>

\* y = rich_block(it["text"], text_width, y); y -= LINE_HEIGHT/2
RichBlock ==
    /\ pc = "appendix"
    /\ calls < MaxCalls
    /\ \E t1 \in BlockParas, sep \in Separators, t2 \in BlockParas :
           LET r == rich_block(t1 \o sep \o t2, PAGE_W - 120000, 60000,
                               cur_y, PAGE_H, media_map, SHOW_VIDEO_URLS)
           IN  /\ text' = t1 \o sep \o t2
               /\ canvas' = r.ops
               /\ cur_y' = r.y - LINE_HEIGHT \div 2
    /\ calls' = calls + 1
    /\ UNCHANGED <<pc, max_width, lines, rect, ret, docVars, poolVars,
                   formVars, SHOW_VIDEO_URLS>>

\* ty = draw_inline(c, txt, x, ty, width, media_map, render_media); doc is
\* called with render_media=True in both passes.
DrawInline ==
    /\ pc = "cards"
    /\ calls < MaxCalls
    /\ \E t \in InlineTexts, render_media \in {TRUE} :
           LET r == draw_inline(t, MARGIN + 6000 + CARD_PAD, cur_y,
                                PAGE_W - 2 * MARGIN - 6000 - 2 * CARD_PAD,
                                media_map, render_media)
           IN  /\ text' = t
               /\ canvas' = r.ops
               /\ cur_y' = r.y
    /\ calls' = calls + 1
    /\ UNCHANGED <<pc, max_width, lines, rect, ret, docVars, poolVars,
                   formVars, SHOW_VIDEO_URLS>>

\* One turn of "for it in groups[key]" in doc: y = draw_item_card(...);
\* if y < 100: new_page(c, key); y = H - MARGIN
DrawItemCard ==
    /\ pc = "cards"
    /\ calls < MaxCalls
    /\ \E t \in InlineTexts, title_lines \in 1..2 :
           LET r == draw_item_card(title_lines, t, MARGIN, cur_y,
                                   PAGE_W - 2 * MARGIN, media_map, TRUE)
           IN  /\ text' = t
               /\ canvas' = r.ops \o new_page(r.y < 100000)
               /\ cur_y' = IF r.y < 100000 THEN PAGE_H - MARGIN ELSE r.y
    /\ calls' = calls + 1
    /\ UNCHANGED <<pc, max_width, lines, rect, ret, docVars, poolVars,
                   formVars, SHOW_VIDEO_URLS>>

NextInline ==
    \/ DrawInlineRichblock
    \/ RichBlock
    \/ DrawInline
    \/ DrawItemCard

SpecInline == InitInline /\ [][NextInline]_vars

(***************************************************************************)
(* Claims about the layout cursor (SpecInline).                            *)
(***************************************************************************)
\* The bottom threshold of the renderer that runs.
Threshold == IF pc = "appendix" THEN 60000 ELSE 72000

IsPageBreak(op) == op.op \in {"showPage", "new_page"}

\* Every drawing call of the sequence that is not a page break is at or
\* above the threshold.
DrawsAboveThreshold(ops) ==
    \A i \in 1..Len(ops) : ~IsPageBreak(ops[i]) => ops[i].y >= Threshold

\* A renderer call entered with the cursor under the threshold breaks the
\* page before its first drawing call.
BreaksBeforeDrawing ==
    (cur_y < Threshold /\ canvas' # <<>>) => IsPageBreak(canvas'[1])

\* C8: every text line, placeholder, label and image of the inline
\* renderers is drawn with its baseline or bottom edge at or above the
\* bottom threshold (60 in draw_inline_richblock, 72 in draw_inline), and a
\* call entered with the cursor under the threshold starts with a page
\* break.
C8_DrawsStayAboveBottom ==
    [](DrawsAboveThreshold(canvas)) /\ [][BreaksBeforeDrawing]_vars

\* A photo whose height forced a page break in the appendix, after a first
\* call that left the cursor low on the page.
C8_Witness ==
    /\ pc = "appendix"
    /\ calls >= 2
    /\ \E i \in 1..(Len(canvas) - 2) :
           /\ canvas[i].op = "showPage"
           /\ canvas[i + 1].op = "photo"
           /\ canvas[i + 2].op = "drawImage"
           /\ canvas[i + 2].y >= 60000

(***************************************************************************)
(* Specification SpecForm: fill_trec_form from the parsed JSON to the      *)
(* appendix, on templates with checkboxes and on templates with comment    *)
(* boxes.                                                                  *)
(***************************************************************************)
MaxBoxes == 9
MaxFields == 2

Widget(page, ft, idx, r, on_name) ==
    [page |-> page, ft |-> ft, idx |-> idx, rect |-> r,
     on_name |-> on_name, V |-> "unset", removed |-> FALSE]

\* The statuses of the items of a checkbox document.
ItemStatusLists ==
    {<<>>, <<"D">>, <<"I">>, <<"NI">>, <<"NP">>, <<"">>,
     <<"D", "I">>, <<"NP", "ni">>, <<"I", "D", "NI">>}

CheckboxDoc(sts) ==
    [headerImageUrl |-> NULL,
     sections |->
         <<[name |-> "Roofing", sectionNumber |-> "1",
            lineItems |->
                [i \in 1..Len(sts) |->
                    [inspectionStatus |-> sts[i], title |-> "Shingles",
                     comments |-> <<>>]]]>>]

\* A template with m checkboxes, the first p of them on page 2 and the
\* others on page 3, numbered from 0 on each page and listed in /Annots in
\* rising or falling order; box number j of the list has no on state
\* (j = 0: every box has one).
CheckboxTemplate(m, p, falling, j) ==
    [i \in 1..m |->
        LET q == Min(p, m)
            onPage2 == i <= q
            n == IF onPage2 THEN q ELSE m - q
            k == IF onPage2 THEN i ELSE i - q
        IN  Widget(IF onPage2 THEN 2 ELSE 3, "Btn",
                   IF falling THEN n - k ELSE k - 1,
                   <<0, 0, 10000, 10000>>,
                   IF i = j THEN NULL ELSE "/1")]

CheckboxScenarios ==
    {[data |-> CheckboxDoc(sts),
      widgets |-> CheckboxTemplate(m, p, falling, j)] :
        sts \in ItemStatusLists,
        m \in 0..MaxBoxes, p \in {0, 2, MaxBoxes}, falling \in BOOLEAN,
        j \in 0..MaxBoxes}

\* Comment texts of one to four lines.
CommentTexts ==
    {<<"a">>, <<"a", "\n", "i">>, <<"a", "\n", "i", "\n", "a", "\n", "i">>}

OverflowDoc(t, more) ==
    [headerImageUrl |-> NULL,
     sections |->
         <<[name |-> "Roofing", sectionNumber |-> "1",
            lineItems |->
                <<[inspectionStatus |-> "D", title |-> "Shingles",
                   comments |-> <<[commentText |-> t,
                                   photos |-> <<Str("u1"), Str("u2")>>,
                                   videos |-> <<>>]>>]>>
                \o (IF more
                    THEN <<[inspectionStatus |-> "I", title |-> "Gutters",
                            comments |-> <<[commentText |-> <<"i">>,
                                            photos |-> <<>>,
                                            videos |-> <<>>]>>]>>
                    ELSE <<>>)]>>]

\* /Tx fields: three comment boxes (capacity 3, 6 and 4 lines), a field
\* that is too narrow, and a large field on page 1.
TextFields ==
    {Widget(2, "Tx", -1, <<50000, 600000, 350000, 650000>>, NULL),
     Widget(2, "Tx", -1, <<50000, 400000, 450000, 486000>>, NULL),
     Widget(3, "Tx", -1, <<50000, 700000, 350000, 762000>>, NULL),
     Widget(2, "Tx", -1, <<50000, 300000, 349000, 350000>>, NULL),
     Widget(1, "Tx", -1, <<50000, 300000, 450000, 400000>>, NULL)}

OverflowScenarios ==
    {[data |-> OverflowDoc(t, more), widgets |-> ws] :
        t \in CommentTexts, more \in BOOLEAN,
        ws \in SeqsUpTo(TextFields, MaxFields)}

\* Three items without comments on the templates of /Tx fields: more items
\* than comment boxes.
BindingScenarios ==
    {[data |-> CheckboxDoc(<<"I", "D", "NI">>), widgets |-> ws] :
        ws \in SeqsUpTo(TextFields, MaxFields)}

\* One item on a template with four checkboxes followed by /Tx fields.
MixedScenarios ==
    {[data |-> CheckboxDoc(<<"D">>),
      widgets |-> CheckboxTemplate(4, 4, FALSE, 0) \o ws] :
        ws \in SeqsUpTo(TextFields, MaxFields)}

InitForm ==
    /\ pc = "start"
    /\ \E sc \in CheckboxScenarios \cup OverflowScenarios
                  \cup BindingScenarios \cup MixedScenarios :
           /\ data = sc.data
           /\ widgets = sc.widgets
    /\ items = <<>>
    /\ media = <<>>
    /\ media_map = <<>>
    /\ checkboxes = <<>>
    /\ comment_fields = <<>>
    /\ overflow = <<>>
    /\ canvas = <<>>
    /\ IdleFlow
    /\ IdlePool
    /\ IdleLayout

\* items, media = extract_items_and_media(data)
ParseJson ==
    /\ pc = "start"
    /\ \E r \in {extract_items_and_media(data)} :
           items' = r.items /\ media' = r.media
    /\ pc' = "parsed"
    /\ UNCHANGED <<data, media_map, canvas, flowVars, poolVars, formVars,
                   layoutVars>>

\* The scan of the pages for checkboxes and comment boxes.
CollectWidgets ==
    /\ pc = "parsed"
    /\ LET r == collect_widgets(widgets, 1, [checkboxes |-> <<>>,
                                             comment_fields |-> <<>>])
       IN  /\ checkboxes' = r.checkboxes
           /\ comment_fields' = r.comment_fields
    /\ pc' = "collected"
    /\ UNCHANGED <<canvas, flowVars, docVars, poolVars, layoutVars,
                   widgets, overflow>>

\* The sort of the checkboxes and the loop that sets them in groups of 4.
SetCheckboxes ==
    /\ pc = "collected"
    /\ LET cbs == sort_checkboxes(widgets, checkboxes)
       IN  /\ checkboxes' = cbs
           /\ widgets' = set_checkboxes(widgets, cbs, items, 1, 0)
    /\ pc' = "checked"
    /\ UNCHANGED <<canvas, flowVars, docVars, poolVars, layoutVars,
                   comment_fields, overflow>>

\* The binding of the items to the comment boxes, the removal of every
\* /Tx widget, and the overlays drawn into the bound boxes.
FillFields ==
    /\ pc = "checked"
    /\ LET cfs == sort_comment_fields(widgets, comment_fields)
           max_bind == Min(Len(items), Len(cfs))
           r == render_overlays(widgets, cfs, items, 1, max_bind,
                                [canvas |-> <<>>, overflow |-> <<>>])
       IN  /\ comment_fields' = cfs
           /\ canvas' = r.canvas
           /\ overflow' = r.overflow
    /\ widgets' = remove_tx_widgets(widgets, comment_fields',
                                     Min(Len(items), Len(comment_fields)))
    /\ pc' = "filled"
    /\ UNCHANGED <<flowVars, docVars, poolVars, layoutVars, checkboxes>>

\* for it in items[max_bind:]: overflow.append(it)
AppendUnbound ==
    /\ pc = "filled"
    /\ overflow' = overflow
           \o SubSeq(items, Min(Len(items), Len(comment_fields)) + 1,
                     Len(items))
    /\ pc' = "overflowed"
    /\ UNCHANGED <<canvas, flowVars, docVars, poolVars, layoutVars,
                   widgets, checkboxes, comment_fields>>

\* media_map = build_media_map(media)
BuildMediaMap ==
    /\ pc = "overflowed"
    /\ \E answers \in AnswerPatterns(Len(media)) :
           media_map' = build_media_map_seq(media, answers)
    /\ pc' = "mapped"
    /\ UNCHANGED <<canvas, flowVars, data, items, media, poolVars,
                   formVars, layoutVars>>

\* The appendix: its title, then every entry of overflow.
RenderAppendix ==
    /\ pc = "mapped"
    /\ IF overflow # <<>>
       THEN LET r == render_appendix(overflow, 1, PAGE_H - 60000 - 24000,
                                     media_map, SHOW_VIDEO_URLS, <<>>)
            IN  /\ canvas' = canvas \o r.canvas
                /\ cur_y' = r.y
       ELSE /\ canvas' = canvas
            /\ cur_y' = PAGE_H - 60000
    /\ pc' = "done"
    /\ UNCHANGED <<flowVars, docVars, poolVars, formVars,
                   SHOW_VIDEO_URLS, calls>>

NextForm ==
    \/ ParseJson
    \/ CollectWidgets
    \/ SetCheckboxes
    \/ FillFields
    \/ AppendUnbound
    \/ BuildMediaMap
    \/ RenderAppendix

SpecForm == InitForm /\ [][NextForm]_vars

(***************************************************************************)
(* Claims about fill_trec_form (SpecForm).                                 *)
(***************************************************************************)
\* The checkbox widgets of the template.
Boxes == {i \in 1..Len(widgets) : widgets[i].ft = "Btn"}

\* The 0-based position of checkbox i when the checkboxes are sorted by
\* (page, index); the (page, index) pairs of a template are distinct.
Rank(i) ==
    Cardinality({b \in Boxes :
        \/ widgets[b].page < widgets[i].page
        \/ (widgets[b].page = widgets[i].page
            /\ widgets[b].idx < widgets[i].idx)})

\* Checkbox i belongs to the group of an item: the item exists and four
\* widgets were left for it.
InGroup(i) ==
    /\ Rank(i) \div 4 < Len(items)
    /\ 4 * (Rank(i) \div 4) + 4 <= Cardinality(Boxes)

CheckboxesSet == pc \in {"checked", "filled", "overflowed", "mapped", "done"}

IsOn(v) == v # "/Off" /\ v # "unset"

\* C6 as stated: in the group of item k the widget at the position of the
\* item's status in (I, NI, NP, D) is on, the other three are off, and the
\* widgets outside every group are not modified.
C6_Original ==
    CheckboxesSet =>
        \A i \in Boxes :
            IF InGroup(i)
            THEN /\ widgets[i].V # "unset"
                 /\ IsOn(widgets[i].V)
                        <=> (items[(Rank(i) \div 4) + 1].status
                                 = order[(Rank(i) % 4) + 1])
            ELSE widgets[i].V = "unset"

\* C6: with the checkboxes sorted by (page, index), item k is bound to the
\* widgets at positions 4k..4k+3 in the order I, NI, NP, D; the widget at
\* the position of the item's status is set to its on state when its
\* appearance dictionary has one, every other widget of the group (that
\* widget too, when it has no on state) is set to /Off, and the widgets
\* left when fewer than four remain for an item are not modified.
C6_CheckboxGroupsOfFour ==
    CheckboxesSet =>
        \A i \in Boxes :
            IF InGroup(i)
            THEN widgets[i].V =
                     IF /\ items[(Rank(i) \div 4) + 1].status
                               = order[(Rank(i) % 4) + 1]
                        /\ widgets[i].on_name # NULL
                     THEN widgets[i].on_name
                     ELSE "/Off"
            ELSE widgets[i].V = "unset"

\* Nine checkboxes listed in falling order and three items (I, D, NI): the
\* fourth widget of the second group is on, the ninth widget is untouched.
C6_Witness ==
    /\ pc = "done"
    /\ Len(items) = 3
    /\ Cardinality(Boxes) = 9
    /\ widgets[1].idx > widgets[2].idx
    /\ \E i \in Boxes : Rank(i) = 7 /\ IsOn(widgets[i].V)
    /\ \E i \in Boxes : Rank(i) = 8 /\ widgets[i].V = "unset"

\* The media indices of the markers of a text, in order.
MarkerIdxs(t) ==
    LET ms == finditer(t, 1) IN [k \in 1..Len(ms) |-> ms[k].idx]

\* Item i is bound to a comment box, its body ends with two photo markers,
\* and its wrapped lines exceed the capacity of the box.
OverflowsWithTwoPhotos(i) ==
    /\ i <= Min(Len(items), Len(comment_fields))
    /\ LET r == widgets[comment_fields[i]].rect
           mk == MarkerIdxs(items[i].text)
       IN  /\ Len(mk) = 2
           /\ \A k \in 1..2 : media[mk[k]].kind = "photo"
           /\ Len(wrap_text(items[i].text, rect_max_w(r)))
                  > rect_capacity(r)

\* The label and image calls of a sequence of drawing calls.
TokenOps(ops) ==
    SelectSeq(ops, LAMBDA o : o.op \in {"photo", "drawImage", "unavailable",
                                        "video", "missing"})

\* What the appendix draws for the markers mk: the label and the image of
\* a photo that was fetched, the placeholder of one that was not.
ResolvedOps(mk) ==
    Flatten([k \in 1..Len(mk) |->
        IF media_map[mk[k]].img # NoImg
        THEN <<[op |-> "photo", idx |-> mk[k]],
               [op |-> "drawImage", idx |-> mk[k]]>>
        ELSE <<[op |-> "unavailable", idx |-> mk[k]]>>])

\* What the appendix draws for the markers mk when each is shown as its
\* image.
ImageOps(mk) ==
    Flatten([k \in 1..Len(mk) |->
        <<[op |-> "photo", idx |-> mk[k]],
          [op |-> "drawImage", idx |-> mk[k]]>>])

\* C7 as stated: the overflow entry of such an item holds the remainder
\* with both markers, and the appendix shows an inline image for each of
\* the two markers.
C7_Original ==
    pc = "done" =>
        \A i \in 1..Len(items) :
            OverflowsWithTwoPhotos(i) =>
                \E k \in 1..Len(overflow) :
                    /\ overflow[k].title = items[i].title
                    /\ MarkerIdxs(overflow[k].text)
                           = MarkerIdxs(items[i].text)
                    /\ \E c \in 1..Len(canvas) :
                           /\ canvas[c].kind = "appendix"
                           /\ canvas[c].item = k
                           /\ LET t == TokenOps(canvas[c].ops)
                              IN  [n \in 1..Len(t) |->
                                      [op |-> t[n].op, idx |-> t[n].idx]]
                                  = ImageOps(MarkerIdxs(items[i].text))

\* C7: an item bound to a comment box whose body (text, then two photo
\* markers) has more wrapped lines than the box holds gets an overflow
\* entry whose text is the non-empty remainder of the fill, with both
\* markers; the appendix draws, for each of the two markers in order, the
\* inline image (or the placeholder of a photo that could not be fetched),
\* and the box itself receives only its white background and text lines.
C7_OverflowKeepsMarkers ==
    pc = "done" =>
        \A i \in 1..Len(items) :
            OverflowsWithTwoPhotos(i) =>
                /\ \E k \in 1..Len(overflow) :
                       /\ overflow[k].title = items[i].title
                       /\ strip(overflow[k].text) # <<>>
                       /\ overflow[k].text =
                              draw_text_in_rect(
                                  widgets[comment_fields[i]].rect,
                                  items[i].text).rest
                       /\ MarkerIdxs(overflow[k].text)
                              = MarkerIdxs(items[i].text)
                       /\ \E c \in 1..Len(canvas) :
                              /\ canvas[c].kind = "appendix"
                              /\ canvas[c].item = k
                              /\ LET t == TokenOps(canvas[c].ops)
                                 IN  [n \in 1..Len(t) |->
                                         [op |-> t[n].op, idx |-> t[n].idx]]
                                     = ResolvedOps(
                                           MarkerIdxs(items[i].text))
                /\ \A c \in 1..Len(canvas) :
                       (canvas[c].kind = "field" /\ canvas[c].item = i) =>
                           \A n \in 1..Len(canvas[c].ops) :
                               canvas[c].ops[n].op
                                   \in {"rect", "drawString"}

\* A comment of four lines in a box of three: the appendix shows both
\* photos as images.
C7_Witness ==
    /\ pc = "done"
    /\ OverflowsWithTwoPhotos(1)
    /\ \E c \in 1..Len(canvas) :
           /\ canvas[c].kind = "appendix"
           /\ Len(SelectSeq(canvas[c].ops,
                            LAMBDA o : o.op = "drawImage")) = 2

\* The positions in the template of the comment-box candidates.
Candidates == {i \in 1..Len(widgets) : is_comment_box(widgets[i])}

FieldsBound == pc \in {"filled", "overflowed", "mapped", "done"}

\* The number of items bound to a comment box.
BoundCount == Min(Len(items), Cardinality(Candidates))

\* C11: the comment-box candidates are taken by page ascending, then by top
\* edge descending; item i is bound to the i-th of them for every i up to
\* min(#items, #fields), its overlay being drawn on that box; the items
\* after that are appended to the overflow list in extraction order.
C11_CommentFieldBinding ==
    /\ FieldsBound =>
           /\ Len(comment_fields) = Cardinality(Candidates)
           /\ {comment_fields[i] : i \in 1..Len(comment_fields)} = Candidates
           /\ \A i \in 1..(Len(comment_fields) - 1) :
                  LET a == widgets[comment_fields[i]]
                      b == widgets[comment_fields[i + 1]]
                  IN  \/ a.page < b.page
                      \/ /\ a.page = b.page
                         /\ rect_coords(a.rect).top >= rect_coords(b.rect).top
           /\ Len(SelectSeq(canvas, LAMBDA e : e.kind = "field"))
                  = BoundCount
           /\ \A i \in 1..BoundCount :
                  LET rc == rect_coords(widgets[comment_fields[i]].rect)
                  IN  /\ canvas[i].kind = "field"
                      /\ canvas[i].item = i
                      /\ canvas[i].page = widgets[comment_fields[i]].page
                      /\ canvas[i].ops[1].op = "rect"
                      /\ canvas[i].ops[1].x = rc.left
                      /\ canvas[i].ops[1].y = rc.bottom
    /\ pc \in {"overflowed", "mapped", "done"} =>
           LET n == Len(items) - BoundCount
           IN  /\ Len(overflow) >= n
               /\ SubSeq(overflow, Len(overflow) - n + 1, Len(overflow))
                      = SubSeq(items, BoundCount + 1, Len(items))

\* Three items on a template that lists its lower comment box first: the
\* boxes are bound in the other order and the third item is deferred.
C11_Witness ==
    /\ pc = "done"
    /\ Len(items) = 3
    /\ Len(comment_fields) = 2
    /\ comment_fields[1] > comment_fields[2]
    /\ overflow[Len(overflow)] = items[3]

(***************************************************************************)
(* C12: once fill_trec_form has bound the values, no /Tx widget of the     *)
(* template is left in a page's annotation list, bound or not, on any      *)
(* page; every /Btn checkbox widget is still in its page's list, with the  *)
(* value written by the checkbox loop if it belongs to a group.            *)
(***************************************************************************)
Remaining == {i \in 1..Len(widgets) : ~widgets[i].removed}

JNull == [t |-> "null"]
JStr(s) == [t |-> "str", v |-> s]
JInt(n) == [t |-> "int", v |-> n]
JDict(f) == [t |-> "dict", f |-> f]

\* Not a value: the key is not in the dict.
JMissing == [t |-> "missing"]

\* "Data not found in test data"
SENTINEL == <<"Data not found in test data">>

\* isinstance(cur, dict) and k in cur
has_key(cur, k) == cur.t = "dict" /\ k \in DOMAIN cur.f

\* cur not in ("", None)
is_blank(cur) == cur.t = "null" \/ (cur.t = "str" /\ cur.v = <<>>)

RECURSIVE getv_walk(_, _, _, _)
\* The loop "for k in path.split('.')" from key number i on.
getv_walk(cur, path, i, default) ==
    IF i > Len(path)
    THEN IF is_blank(cur) THEN default ELSE cur
    ELSE IF has_key(cur, path[i])
         THEN getv_walk(cur.f[path[i]], path, i + 1, default)
         ELSE default

\* getv(doc, path, default); path is the list of the keys.
getv(doc, path, default) == getv_walk(doc, path, 1, default)

\* datetime.fromtimestamp(ms/1000.0, tz=utc).date().isoformat() on the
\* numbers of the model.
isoformat(n) ==
    CASE n = "1700000000000" -> <<"2023-11-14">>
      [] n = "75001" -> <<"1970-01-01">>

\* ms_to_iso(ms)
ms_to_iso(ms) ==
    IF ms.t = "int" THEN JStr(isoformat(ms.v)) ELSE JStr(SENTINEL)

\* str(x): a string is itself, a number its decimal text, None "None", a
\* dict its repr.
py_str(x) ==
    CASE x.t = "str" -> x
      [] x.t = "int" -> JStr(<<x.v>>)
      [] x.t = "null" -> JStr(<<"None">>)
      [] x.t = "dict" -> JStr(<<"{...}">>)

\* bool(x)
py_truthy(x) ==
    CASE x.t = "str" -> x.v # <<>>
      [] x.t = "int" -> x.v # "0"
      [] x.t = "null" -> FALSE
      [] x.t = "dict" -> DOMAIN x.f # {}

RECURSIVE join_words(_)
join_words(ps) ==
    IF ps = <<>> THEN <<>> ELSE ps[1].v \o join_words(Tail(ps))

\* " ".join([p for p in parts if p]): a part that is kept and is not a
\* string raises TypeError.
join_parts(parts) ==
    LET kept == SelectSeq(parts, py_truthy)
    IN  IF \E i \in 1..Len(kept) : kept[i].t # "str"
        THEN [raised |-> TRUE, v |-> JNull]
        ELSE [raised |-> FALSE, v |-> JStr(join_words(kept))]

\* The four getv calls on the parts of the address.
address_parts(doc) ==
    <<getv(doc, <<"address", "street">>, JStr(<<>>)),
      getv(doc, <<"address", "city">>, JStr(<<>>)),
      getv(doc, <<"address", "state">>, JStr(<<>>)),
      getv(doc, <<"address", "zipcode">>, JStr(<<>>))>>

\* if not addr or addr == "Data not found in test data"
needs_parts(addr) ==
    ~py_truthy(addr) \/ (addr.t = "str" /\ addr.v = SENTINEL)

\* x or "Data not found in test data"
or_sentinel(x) == IF py_truthy(x) THEN x ELSE JStr(SENTINEL)

\* The address of header_values_list and of extract in Bonus.py: "or" is
\* applied to the joined parts only.
address_of(doc) ==
    LET addr == getv(doc, <<"address", "fullAddress">>, JStr(<<>>))
    IN  IF needs_parts(addr)
        THEN LET j == join_parts(address_parts(doc))
             IN  [raised |-> j.raised, v |-> or_sentinel(j.v)]
        ELSE [raised |-> FALSE, v |-> addr]

\* header_values_list(data): the list of the seven values, or TypeError.
header_values_list(doc) ==
    LET a == address_of(doc)
    IN  IF a.raised
        THEN [fn |-> "header_values_list", raised |-> TRUE, head |-> <<>>]
        ELSE [fn |-> "header_values_list", raised |-> FALSE,
              head |->
                  <<py_str(getv(doc, <<"clientInfo", "name">>,
                                JStr(SENTINEL))),
                    ms_to_iso(getv(doc, <<"schedule", "date">>, JNull)),
                    py_str(a.v),
                    py_str(getv(doc, <<"inspector", "name">>,
                                JStr(SENTINEL))),
                    py_str(getv(doc, <<"inspector", "license">>,
                                JStr(<<>>))),
                    JStr(<<>>),
                    JStr(<<>>)>>]

\* extract_header_data(data): addr_full is joined without the "or", which
\* is applied in the dict (str(addr_full or ...)).
extract_header_data(doc) ==
    LET addr == getv(doc, <<"address", "fullAddress">>, JStr(<<>>))
        j == IF needs_parts(addr) THEN join_parts(address_parts(doc))
             ELSE [raised |-> FALSE, v |-> addr]
    IN  IF j.raised
        THEN [fn |-> "extract_header_data", raised |-> TRUE, head |-> <<>>]
        ELSE [fn |-> "extract_header_data", raised |-> FALSE,
              head |->
                  [nameofclient |->
                       py_str(getv(doc, <<"clientInfo", "name">>,
                                   JStr(SENTINEL))),
                   dateofinspection |->
                       ms_to_iso(getv(doc, <<"schedule", "date">>, JNull)),
                   addressofinspectedproperty |->
                       py_str(or_sentinel(j.v)),
                   nameofinspector |->
                       py_str(getv(doc, <<"inspector", "name">>,
                                   JStr(SENTINEL))),
                   treclicens |->
                       py_str(getv(doc, <<"inspector", "license">>,
                                   JStr(<<>>))),
                   nameofspnsorifapplicable |-> JStr(<<>>),
                   treclicens_2 |-> JStr(<<>>)]]

\* The head of extract(data) in Bonus.py: the address is stored as it is,
\* without str().
extract_head(doc) ==
    LET a == address_of(doc)
    IN  IF a.raised
        THEN [fn |-> "extract", raised |-> TRUE, head |-> <<>>]
        ELSE [fn |-> "extract", raised |-> FALSE,
              head |->
                  [client |-> py_str(getv(doc, <<"clientInfo", "name">>,
                                          JStr(SENTINEL))),
                   date |-> ms_to_iso(getv(doc, <<"schedule", "date">>,
                                           JNull)),
                   address |-> a.v,
                   inspector |-> py_str(getv(doc, <<"inspector", "name">>,
                                             JStr(SENTINEL))),
                   license |-> py_str(getv(doc, <<"inspector", "license">>,
                                           JStr(<<>>)))]]

(***************************************************************************)
(* Specification SpecHeader: the three header extractions on inspection    *)
(* records that differ from a complete record in up to MaxFaults places.   *)
(***************************************************************************)
MaxFaults == 2

HeaderBase ==
    JDict([clientInfo |-> JDict([name |-> JStr(<<"Ann Lee">>)]),
           schedule |-> JDict([date |-> JInt("1700000000000")]),
           address |->
               JDict([fullAddress |-> JStr(<<"12 Elm St, Austin TX 78701">>),
                      street |-> JStr(<<"12 Elm St">>),
                      city |-> JStr(<<"Austin">>),
                      state |-> JStr(<<"TX">>),
                      zipcode |-> JStr(<<"78701">>)]),
           inspector |-> JDict([name |-> JStr(<<"Bo Ray">>),
                                license |-> JStr(<<"TX-1">>)])])

\* The places of a record that a fault changes.
FaultPaths ==
    {<<"clientInfo">>, <<"clientInfo", "name">>, <<"schedule", "date">>,
     <<"address">>, <<"address", "fullAddress">>, <<"address", "street">>,
     <<"address", "city">>, <<"address", "state">>,
     <<"address", "zipcode">>,
     <<"inspector">>, <<"inspector", "name">>, <<"inspector", "license">>}

\* What a fault leaves there: no key, null, "", a number, a dict.
FaultValues ==
    {JMissing, JNull, JStr(<<>>), JInt("75001"), JDict([k |-> JNull])}

Faults == {[path |-> p, val |-> v] : p \in FaultPaths, v \in FaultValues}

set_key(dv, k, val) ==
    IF val.t = "missing"
    THEN JDict([x \in DOMAIN dv.f \ {k} |-> dv.f[x]])
    ELSE JDict([x \in DOMAIN dv.f \cup {k} |->
                   IF x = k THEN val ELSE dv.f[x]])

put(doc, path, val) ==
    IF Len(path) = 1 THEN set_key(doc, path[1], val)
    ELSE IF has_key(doc, path[1]) /\ doc.f[path[1]].t = "dict"
         THEN set_key(doc, path[1], set_key(doc.f[path[1]], path[2], val))
         ELSE doc

RECURSIVE with_faults(_, _)
with_faults(doc, fs) ==
    IF fs = <<>> THEN doc
    ELSE with_faults(put(doc, fs[1].path, fs[1].val), Tail(fs))

HeaderDocs == {with_faults(HeaderBase, fs) : fs \in SeqsUpTo(Faults, MaxFaults)}

InitHeader ==
    /\ pc = "start"
    /\ data \in HeaderDocs
    /\ ret = [fn |-> "none", raised |-> FALSE, head |-> <<>>]
    /\ text = <<>>
    /\ max_width = 0
    /\ lines = <<>>
    /\ rect = <<0, 0, 0, 0>>
    /\ items = <<>>
    /\ media = <<>>
    /\ media_map = <<>>
    /\ canvas = <<>>
    /\ IdlePool
    /\ IdleForm
    /\ IdleLayout

\* header = extract_header_data(data)
ExtractHeaderData ==
    /\ pc = "start"
    /\ ret' = extract_header_data(data)
    /\ pc' = "done"
    /\ UNCHANGED <<canvas, text, max_width, lines, rect, docVars, poolVars,
                   formVars, layoutVars>>

\* values = header_values_list(data)
HeaderValuesList ==
    /\ pc = "start"
    /\ ret' = header_values_list(data)
    /\ pc' = "done"
    /\ UNCHANGED <<canvas, text, max_width, lines, rect, docVars, poolVars,
                   formVars, layoutVars>>

\* head = {...} and head["address"] = addr_full in extract of Bonus.py
ExtractHead ==
    /\ pc = "start"
    /\ ret' = extract_head(data)
    /\ pc' = "done"
    /\ UNCHANGED <<canvas, text, max_width, lines, rect, docVars, poolVars,
                   formVars, layoutVars>>

NextHeader ==
    \/ ExtractHeaderData
    \/ HeaderValuesList
    \/ ExtractHead

SpecHeader == InitHeader /\ [][NextHeader]_vars

(***************************************************************************)
(* C13: for each of the five header values, a JSON field that is missing,  *)
(* empty, null or of the wrong shape gives the sentinel string, and the    *)
(* extraction does not raise.                                              *)
(***************************************************************************)
\* The value at a path of the record, JMissing if the walk stops.
Field(path) == getv_walk(data, path, 1, JMissing)

\* Missing, empty, null, or not of the type the header value is read as.
Degenerate(path, type) ==
    LET f == IF is_blank(Field(path)) THEN JMissing ELSE Field(path)
    IN  f.t # type

\* Neither the full address nor any of its parts is usable.
AddressDegenerate ==
    \A k \in {"fullAddress", "street", "city", "state", "zipcode"} :
        Degenerate(<<"address", k>>, "str")

\* The header value number i of the result (client, date, address,
\* inspector, license), whichever function produced it.
HeaderValue(i) ==
    CASE ret.fn = "header_values_list" -> ret.head[i]
      [] ret.fn = "extract_header_data" ->
             <<ret.head.nameofclient, ret.head.dateofinspection,
               ret.head.addressofinspectedproperty,
               ret.head.nameofinspector, ret.head.treclicens>>[i]
      [] ret.fn = "extract" ->
             <<ret.head.client, ret.head.date, ret.head.address,
               ret.head.inspector, ret.head.license>>[i]

C13_Original ==
    pc = "done" =>
        /\ ~ret.raised
        /\ Degenerate(<<"clientInfo", "name">>, "str")
               => HeaderValue(1) = JStr(SENTINEL)
        /\ Degenerate(<<"schedule", "date">>, "int")
               => HeaderValue(2) = JStr(SENTINEL)
        /\ AddressDegenerate => HeaderValue(3) = JStr(SENTINEL)
        /\ Degenerate(<<"inspector", "name">>, "str")
               => HeaderValue(4) = JStr(SENTINEL)
        /\ Degenerate(<<"inspector", "license">>, "str")
               => HeaderValue(5) = JStr(SENTINEL)

(***************************************************************************)
(* C14: every media marker of an item body is rendered by the media        *)
(* resolver (image, video label or placeholder) where its text is laid     *)
(* out; no marker is in the output as literal marker text only.            *)
(***************************************************************************)
\* Some drawing call of the output is the outcome of marker number m.
Rendered(m) ==
    \E c \in 1..Len(canvas) : \E n \in 1..Len(canvas[c].ops) :
        /\ canvas[c].ops[n].op \in {"photo", "unavailable", "video",
                                    "missing"}
        /\ canvas[c].ops[n].idx = m

C14_Original ==
    pc = "done" =>
        \A i \in 1..Len(items) :
            \A k \in 1..Len(MarkerIdxs(items[i].text)) :
                Rendered(MarkerIdxs(items[i].text)[k])

(***************************************************************************)
(* C15: wrap is greedy and width-bounded.  The returned lines are the      *)
(* lines of the paragraphs (the text split on newlines) one after the      *)
(* other; a paragraph without a word gives exactly one empty line; a line  *)
(* of two or more words is never wider than max_width, so only a line of   *)
(* one word may be; and a line that continues a paragraph starts with a    *)
(* word that did not fit at the end of the line before it.                 *)
(***************************************************************************)
\* The font size of the measurement: the setFont call of the wrap.
WrapSize == canvas[1].size

\* ls are the lines of one paragraph of the words ws.
ParaWrapped(ws, ls) ==
    /\ ls # <<>>
    /\ Flatten([i \in 1..Len(ls) |-> split_ws(ls[i])]) = ws
    /\ \A i \in 1..Len(ls) :
           /\ ls[i] = join(split_ws(ls[i]), <<" ">>)
           /\ Len(split_ws(ls[i])) >= 2
                  => stringWidth(ls[i], WrapSize) <= max_width
           /\ stringWidth(ls[i], WrapSize) > max_width
                  => Len(split_ws(ls[i])) = 1
    /\ \A i \in 2..Len(ls) :
           stringWidth(ls[i - 1] \o <<" ">> \o split_ws(ls[i])[1], WrapSize)
               > max_width

RECURSIVE ParasWrapped(_, _)
\* ls are the lines of the paragraphs paras, paragraph after paragraph.
ParasWrapped(paras, ls) ==
    IF paras = <<>> THEN ls = <<>>
    ELSE IF split_ws(Head(paras)) = <<>>
    THEN /\ ls # <<>>
         /\ Head(ls) = <<>>
         /\ ParasWrapped(Tail(paras), Tail(ls))
    ELSE \E n \in 1..Len(ls) :
             /\ ParaWrapped(split_ws(Head(paras)), SubSeq(ls, 1, n))
             /\ ParasWrapped(Tail(paras), SubSeq(ls, n + 1, Len(ls)))

C15_WrapGreedyWidthBounded ==
    pc = "wrapped" => ParasWrapped(split(text, "\n"), lines)

\* A paragraph of three words wrapped into a line of two words and a
\* continuation line, at the size of generate_report.py.
C15_Witness ==
    /\ pc = "wrapped"
    /\ WrapSize = FIXED_SIZE
    /\ Len(split(text, "\n")) = 1
    /\ Len(lines) = 2
    /\ Len(split_ws(lines[1])) = 2
    /\ stringWidth(lines[1] \o <<" ">> \o lines[2], WrapSize) > max_width

(***************************************************************************)
(* C16: draw_text_in_rect draws exactly min(len(lines), capacity) lines,   *)
(* the first wrapped lines in order, from one line height under the inner  *)
(* top downwards, one line height apart; it returns (True, "") if and only *)
(* if len(lines) <= capacity; otherwise it returns False with              *)
(* lines[capacity:] joined by newlines, except at capacity zero, where no  *)
(* line is drawn and the remainder is the input text itself.               *)
(***************************************************************************)
DrawStrings == SelectSeq(canvas, LAMBDA o : o.op = "drawString")

C16_FillRectExact ==
    pc = "filled" =>
        LET capacity == rect_capacity(rect)
            left == rect_coords(rect).left + LEFT_PAD
            top == rect_coords(rect).top - TOP_PAD
        IN  /\ Len(DrawStrings) = Min(Len(lines), capacity)
            /\ \A i \in 1..Len(DrawStrings) :
                   /\ DrawStrings[i].s = lines[i]
                   /\ DrawStrings[i].x = left
                   /\ DrawStrings[i].y = top - i * LINE_HEIGHT
            /\ ret.ok <=> Len(lines) <= capacity
            /\ ret.ok => ret.rest = <<>>
            /\ ~ret.ok /\ capacity >= 1 =>
                   ret.rest = join(SubSeq(lines, capacity + 1, Len(lines)),
                                   <<"\n">>)
            /\ capacity = 0 => DrawStrings = <<>> /\ ret.rest = text

\* A fill that stops after two lines, drawn one line height apart, and
\* returns a third.
C16_Witness ==
    /\ pc = "filled"
    /\ rect_capacity(rect) = 2
    /\ Len(lines) = 3
    /\ Len(DrawStrings) = 2
    /\ DrawStrings[1].y - DrawStrings[2].y = LINE_HEIGHT
    /\ ret = [ok |-> FALSE, rest |-> lines[3]]

(***************************************************************************)
(* The font of the canvas along the drawing calls of an inline renderer.   *)
(* showPage starts the next page in the canvas's initial font, so a font   *)
(* set before it is lost.                                                  *)
(***************************************************************************)
\* FIXED_FONT, FIXED_SIZE in draw_inline_richblock; FONT, FS in draw_inline.
BodyFont(renderer) ==
    IF renderer = "appendix"
    THEN [name |-> "Helvetica", size |-> FIXED_SIZE]
    ELSE [name |-> "Helvetica", size |-> FS]

\* The font of a canvas that was not given one: Helvetica 12.
InitialFont == [name |-> "Helvetica", size |-> 12000]

\* The font the canvas is left in by a drawing call made in font f.  A
\* "showPage" of draw_inline_richblock is followed by setFont(FIXED_FONT,
\* FIXED_SIZE); "new_page" is footer (which sets FONT, 9) and showPage, and
\* no setFont; every token branch and the card title end with a setFont to
\* the body font; drawString sets nothing.
font_after(o, f, body) ==
    CASE o.op = "showPage" -> body
      [] o.op = "new_page" -> InitialFont
      [] o.op \in {"missing", "photo", "drawImage", "unavailable", "video",
                   "title"} -> body
      [] OTHER -> f

RECURSIVE font_at(_, _, _, _)
\* The font in which call number n of ops is made, ops entered in font f.
font_at(ops, n, f, body) ==
    IF n = 1 THEN f
    ELSE font_at(Tail(ops), n - 1, font_after(Head(ops), f, body), body)

(***************************************************************************)
(* C17: after every page break inside draw_inline_richblock and            *)
(* draw_inline the font is the body font again before the next draw, so a  *)
(* body-text line after a page break is drawn in the body font, like the   *)
(* lines before it.                                                        *)
(***************************************************************************)
\* A line of the raw URL of a video (SHOW_VIDEO_URLS), drawn in the font of
\* the video label.
IsUrlLine(o) ==
    \E k \in 1..Len(media_map) : o.s = <<media_map[k].url>>

IsBodyLine(o) == o.op = "drawString" /\ ~IsUrlLine(o)

C17_Original ==
    \A n \in 1..Len(canvas) :
        IsBodyLine(canvas[n])
            => font_at(canvas, n, BodyFont(pc), BodyFont(pc)) = BodyFont(pc)

(***************************************************************************)
(* C18: a decoded photo of size (iw, ih) is drawn in a column of the given *)
(* width at (iw * s, ih * s), s = min(width / iw, INLINE_IMG_MAX_H / ih):  *)
(* not wider than the column, not higher than INLINE_IMG_MAX_H, in the     *)
(* proportions iw : ih (to the rounding of one unit), and at the top of a  *)
(* fresh page whenever it would not fit above the bottom threshold at the  *)
(* cursor.                                                                 *)
(***************************************************************************)
\* The text column of the renderer that runs.
ColumnWidth ==
    IF pc = "appendix" THEN PAGE_W - 120000
    ELSE PAGE_W - 2 * MARGIN - 6000 - 2 * CARD_PAD

\* The cursor after a page break.
PageTop == IF pc = "appendix" THEN PAGE_H - 60000 ELSE PAGE_H - MARGIN

Abs(n) == IF n < 0 THEN 0 - n ELSE n

\* The size of every image drawn, and its place under its label.
ImagesScaled(ops) ==
    \A n \in 1..Len(ops) :
        ops[n].op = "drawImage" =>
            LET img == media_map[ops[n].idx].img
                iw == img[2]
                ih == img[3]
            IN  /\ ops[n].w <= ColumnWidth
                /\ ops[n].h <= INLINE_IMG_MAX_H
                /\ ops[n].w = ColumnWidth \/ ops[n].h = INLINE_IMG_MAX_H
                /\ Abs(ops[n].w * ih - ops[n].h * iw) < Max(iw, ih)
                /\ n > 1
                /\ ops[n - 1].op = "photo"
                /\ ops[n - 1].idx = ops[n].idx
                /\ ops[n].y = ops[n - 1].y - 12000 - ops[n].h
                /\ ops[n].y >= Threshold

\* A call that starts with a photo whose image does not fit between the
\* cursor and the threshold draws it at the top of a new page.
FreshPageWhenNoRoom ==
    \A n \in 1..Len(canvas') :
        (/\ canvas'[n].op = "drawImage"
         /\ \A m \in 1..(n - 2) : IsPageBreak(canvas'[m])
         /\ cur_y - 12000 - canvas'[n].h < Threshold)
            => /\ n > 2
               /\ canvas'[n - 1].y = PageTop

C18_InlineImageScaled ==
    [](ImagesScaled(canvas)) /\ [][FreshPageWhenNoRoom]_vars

\* The wide photo drawn at the full column width, lower than the maximum
\* height, at the top of a page that was started for it.
C18_Witness ==
    \E n \in 3..Len(canvas) :
        /\ canvas[n].op = "drawImage"
        /\ canvas[n].idx = 5
        /\ canvas[n].w = ColumnWidth
        /\ canvas[n].h < INLINE_IMG_MAX_H
        /\ IsPageBreak(canvas[n - 2])
        /\ canvas[n - 1].y = PageTop

(***************************************************************************)
(* C19: the inline renderers go through the text from left to right; each  *)
(* marker [M#k] gives the one outcome that the media map fixes for k (no   *)
(* entry: the "missing" placeholder, one line; a photo with an image: the  *)
(* caption, then the image; a photo without: the "unavailable"             *)
(* placeholder, one line; a video: the label, linked to its URL); the text *)
(* before a marker is drawn before its outcome and the text after the last *)
(* marker at the end.                                                      *)
(***************************************************************************)
Proj(o) == [op |-> o.op, s |-> o.s, idx |-> o.idx]

\* The calls of the renderer, without page breaks and card frame.
Drawn ==
    LET ds == SelectSeq(canvas, LAMBDA o : o.op \notin
                  {"showPage", "new_page", "card", "title"})
    IN  [n \in 1..Len(ds) |-> Proj(ds[n])]

\* The lines of a span of text.
TextOps(chunk) ==
    LET ls == IF pc = "appendix" THEN wrap_text(chunk, ColumnWidth)
              ELSE wrap_lines(chunk, ColumnWidth, FS)
    IN  IF chunk = <<>> THEN <<>>
        ELSE [n \in 1..Len(ls) |->
                 [op |-> "drawString", s |-> ls[n], idx |-> 0]]

\* The outcome of marker k under the media map.
Outcome(k) ==
    IF k \notin DOMAIN media_map
    THEN <<[op |-> "missing", s |-> <<>>, idx |-> k]>>
    ELSE IF media_map[k].kind = "photo" /\ media_map[k].img # NoImg
    THEN <<[op |-> "photo", s |-> <<>>, idx |-> k],
           [op |-> "drawImage", s |-> <<>>, idx |-> k]>>
    ELSE IF media_map[k].kind = "video"
    THEN <<[op |-> "video", s |-> <<media_map[k].url>>, idx |-> k]>>
         \o (IF pc = "appendix" /\ SHOW_VIDEO_URLS
             THEN <<[op |-> "drawString", s |-> <<media_map[k].url>>,
                     idx |-> 0]>>
             ELSE <<>>)
    ELSE <<[op |-> "unavailable", s |-> <<>>, idx |-> k]>>

RECURSIVE ExpectedFrom(_, _, _, _)
\* Spans and outcomes in text order, from match k of ms on.
ExpectedFrom(t, ms, k, pos) ==
    IF k > Len(ms) THEN TextOps(SubSeq(t, pos + 1, Len(t)))
    ELSE TextOps(SubSeq(t, pos + 1, ms[k].start))
         \o Outcome(ms[k].idx)
         \o ExpectedFrom(t, ms, k + 1, ms[k].end)

\* rich_block takes the paragraphs one by one and draws nothing for a
\* blank one; the other calls take the text as a whole.
Expected ==
    IF pc = "appendix" /\ \E i \in 1..Len(text) : text[i] = "\n"
    THEN LET paras == split(text, "\n")
         IN  Flatten([i \in 1..Len(paras) |->
                 IF strip(paras[i]) = <<>> THEN <<>>
                 ELSE ExpectedFrom(paras[i], finditer(paras[i], 1), 1, 0)])
    ELSE ExpectedFrom(text, finditer(text, 1), 1, 0)

LineStep == IF pc = "appendix" THEN LINE_HEIGHT ELSE LH

IsPlaceholder(o) == o.op \in {"missing", "unavailable"}

\* A placeholder takes one line: what is drawn next on the page is one
\* line lower, and a call that ends with it returns the cursor one line
\* lower.
PlaceholdersTakeOneLine ==
    /\ \A n \in 1..(Len(canvas) - 1) :
           IsPlaceholder(canvas[n]) /\ ~IsPageBreak(canvas[n + 1])
               => canvas[n + 1].y = canvas[n].y - LineStep
    /\ (/\ canvas # <<>>
        /\ IsPlaceholder(canvas[Len(canvas)])
        /\ \A n \in 1..Len(canvas) : canvas[n].op # "card")
           => cur_y = canvas[Len(canvas)].y - LineStep

C19_MarkerOutcomesInOrder ==
    calls > 0 => Drawn = Expected /\ PlaceholdersTakeOneLine

\* Text, a photo with its image, text, a video with its link and its URL
\* line, in this order.
C19_Witness ==
    /\ pc = "appendix"
    /\ Len(Drawn) = 6
    /\ Drawn[1].op = "drawString"
    /\ Drawn[2].op = "photo"
    /\ Drawn[3].op = "drawImage"
    /\ Drawn[4].s = <<"i">>
    /\ Drawn[5] = [op |-> "video", s |-> <<"v1">>, idx |-> 3]
    /\ Drawn[6].s = <<"v1">>

(***************************************************************************)
(* overlay_fill_header_page1: the header values drawn over the /Tx widgets *)
(* of the top quarter of page 1.  A widget of that page is [page, ft,      *)
(* name, rect], name being the normalized tail of its /T.                  *)
(***************************************************************************)
\* if r[3] > top - (top - bottom) * 0.25, on a page of height PAGE_H.
in_header_band(w) ==
    w.ft = "Tx" /\ rect_coords(w.rect).top > PAGE_H - (PAGE_H * 25) \div 100

\* rects: the rectangles of the band, in /Annots order.
header_rects(ws) ==
    LET band == SelectSeq(ws, in_header_band)
    IN  [i \in 1..Len(band) |-> rect_coords(band[i].rect)]

\* yc = 0.5 * (b + t)
y_center(r) == (r.bottom + r.top) \div 2

\* The first row whose center is within y_tol = 8 of yc, 0 if there is none.
row_of(centers, yc) ==
    LET near == {i \in 1..Len(centers) :
                    yc - centers[i] <= 8000 /\ centers[i] - yc <= 8000}
    IN  IF near = {} THEN 0 ELSE CHOOSE i \in near : \A j \in near : i <= j

RECURSIVE place_rects(_, _, _, _)
\* The loop "for r in rects" of _group_by_rows from rect number i on.  The
\* center of a row that grows is set to (cy * len(row) + yc) / len(row),
\* len(row) taken after the append.
place_rects(rects, i, rows, centers) ==
    IF i > Len(rects) THEN rows
    ELSE LET yc == y_center(rects[i])
             k == row_of(centers, yc)
         IN  IF k = 0
             THEN place_rects(rects, i + 1, Append(rows, <<rects[i]>>),
                              Append(centers, yc))
             ELSE place_rects(rects, i + 1,
                      [rows EXCEPT ![k] = Append(@, rects[i])],
                      [centers EXCEPT ![k] =
                          (@ * (Len(rows[k]) + 1) + yc)
                              \div (Len(rows[k]) + 1)])

\* _group_by_rows(rects): each row sorted by its left edge, the rows by
\* the center of their first rectangle, highest first.
group_by_rows(rects) ==
    LET placed == place_rects(rects, 1, <<>>, <<>>)
        rows == [k \in 1..Len(placed) |->
                    sorted_by(placed[k],
                              [j \in 1..Len(placed[k]) |->
                                  <<placed[k][j].left, 0>>])]
    IN  sorted_by(rows, [k \in 1..Len(rows) |->
                            <<0 - y_center(rows[k][1]), 0>>])

\* ordered_rects = [r for row in rows for r in row]
ordered_rects(ws) == Flatten(group_by_rows(header_rects(ws)))

\* The drawing calls of overlay_fill_header_page1: values[i] is drawn into
\* ordered_rects[i] for i < min(len(values), len(ordered_rects)); nothing
\* is drawn when the band holds no field.  header_values_list may raise.
overlay_fill_header_page1(ws, doc) ==
    LET rs == ordered_rects(ws)
        vals == header_values_list(doc)
    IN  IF rs = <<>> THEN [raised |-> FALSE, ops |-> <<>>]
        ELSE IF vals.raised THEN [raised |-> TRUE, ops |-> <<>>]
        ELSE [raised |-> FALSE,
              ops |-> [i \in 1..Min(Len(vals.head), Len(rs)) |->
                          [op |-> "shrink_to_fit", rect |-> rs[i],
                           s |-> vals.head[i].v]]]

(***************************************************************************)
(* Specification SpecOverlay: the page-1 overlay on records with at most   *)
(* one fault and on templates that give the seven header fields their      *)
(* usual places or exchange two of them, listed in /Annots in either       *)
(* order.                                                                  *)
(***************************************************************************)
\* The normalized tails of the names of the header fields: the keys of the
\* dict of extract_header_data, in the order of header_values_list.
HeaderKeys ==
    <<"nameofclient", "dateofinspection", "addressofinspectedproperty",
      "nameofinspector", "treclicens", "nameofspnsorifapplicable",
      "treclicens_2">>

\* The places of the seven fields in reading order: two to a row with the
\* address on a row of its own, or the address as third field of the
\* first row.
HeaderLayouts ==
    {<<(<<60000, 700000, 300000, 716000>>),
       (<<320000, 700000, 550000, 716000>>),
       (<<60000, 670000, 550000, 686000>>),
       (<<60000, 640000, 300000, 656000>>),
       (<<320000, 640000, 550000, 656000>>),
       (<<60000, 610000, 300000, 626000>>),
       (<<320000, 610000, 550000, 626000>>)>>,
     <<(<<60000, 700000, 200000, 716000>>),
       (<<210000, 700000, 300000, 716000>>),
       (<<310000, 700000, 550000, 716000>>),
       (<<60000, 640000, 300000, 656000>>),
       (<<320000, 640000, 550000, 656000>>),
       (<<60000, 610000, 300000, 626000>>),
       (<<320000, 610000, 550000, 626000>>)>>}

\* The two fields that exchange their places (none for <<1, 1>>).
HeaderSwaps == {<<1, 1>>, <<1, 2>>, <<2, 3>>, <<4, 5>>}

Swapped(sw, i) ==
    IF i = sw[1] THEN sw[2] ELSE IF i = sw[2] THEN sw[1] ELSE i

\* Page 1 with field number i at place Swapped(sw, i) of the layout, the
\* annotations listed in reading order of the names or in reverse.
HeaderTemplate(layout, sw, reverse) ==
    [n \in 1..7 |->
        LET i == IF reverse THEN 8 - n ELSE n
        IN  [page |-> 0, ft |-> "Tx", name |-> HeaderKeys[i],
             rect |-> layout[Swapped(sw, i)]]]

HeaderTemplates ==
    {HeaderTemplate(l, sw, rv) :
        l \in HeaderLayouts, sw \in HeaderSwaps, rv \in BOOLEAN}
    \cup {<<>>}

OverlayDocs == {with_faults(HeaderBase, fs) : fs \in SeqsUpTo(Faults, 1)}

InitOverlay ==
    /\ pc = "start"
    /\ data \in OverlayDocs
    /\ widgets \in HeaderTemplates
    /\ ret = [fn |-> "none", raised |-> FALSE, head |-> <<>>]
    /\ text = <<>>
    /\ max_width = 0
    /\ lines = <<>>
    /\ rect = <<0, 0, 0, 0>>
    /\ items = <<>>
    /\ media = <<>>
    /\ media_map = <<>>
    /\ canvas = <<>>
    /\ checkboxes = <<>>
    /\ comment_fields = <<>>
    /\ overflow = <<>>
    /\ IdlePool
    /\ IdleLayout

\* header = extract_header_data(data), which fill_trec_form does not use
\* afterwards.
OverlayParse ==
    /\ pc = "start"
    /\ ret' = extract_header_data(data)
    /\ pc' = IF ret'.raised THEN "raised" ELSE "parsed"
    /\ UNCHANGED <<canvas, text, max_width, lines, rect, docVars, poolVars,
                   formVars, layoutVars>>

\* overlay_fill_header_page1(writer, data)
OverlayFillHeaderPage1 ==
    /\ pc = "parsed"
    /\ LET r == overlay_fill_header_page1(widgets, data)
       IN  /\ canvas' = r.ops
           /\ pc' = IF r.raised THEN "raised" ELSE "done"
    /\ UNCHANGED <<text, max_width, lines, rect, ret, docVars, poolVars,
                   formVars, layoutVars>>

NextOverlay ==
    \/ OverlayParse
    \/ OverlayFillHeaderPage1

SpecOverlay == InitOverlay /\ [][NextOverlay]_vars

(***************************************************************************)
(* C20: each header value is written into the page-1 widget whose          *)
(* normalized name tail is the key of that value in the lookup table,      *)
(* whatever the place of the widget and the order of the widgets.          *)
(***************************************************************************)
\* The text drawn into the rectangle of widget w, if any.
DrawnInto(w) ==
    {canvas[n].s : n \in {m \in 1..Len(canvas) :
                             canvas[m].rect = rect_coords(w.rect)}}

C20_Original ==
    pc = "done" =>
        \A i \in 1..Len(widgets) :
            DrawnInto(widgets[i]) = {ret.head[widgets[i].name].v}

(***************************************************************************)
(* C21: no item text is lost between field and appendix.  For a bound      *)
(* item, the non-blank wrapped lines of its body are the lines drawn in    *)
(* its comment box followed by the non-blank lines of its overflow entry,  *)
(* if it has one: each line is in one of the two and in one only.  An item *)
(* has at most one overflow entry, with its own section, sectionNumber and *)
(* title, and the entries of the bound items come before the unbound       *)
(* items, which follow whole and in order.                                 *)
(***************************************************************************)
NonBlank(ls) == SelectSeq(ls, LAMBDA l : strip(l) # <<>>)

\* The lines drawn into the comment box of bound item i.
FieldLines(i) ==
    LET ds == SelectSeq(canvas[i].ops, LAMBDA o : o.op = "drawString")
    IN  [n \in 1..Len(ds) |-> ds[n].s]

\* The wrapped lines of t in the comment box of bound item i.
WrappedIn(i, t) == wrap_text(t, rect_max_w(widgets[comment_fields[i]].rect))

\* The k-th smallest member of a set of numbers.
Nth(S, k) == CHOOSE i \in S : Cardinality({j \in S : j < i}) = k - 1

\* Overflow entry e holds what the box of bound item i does not.
Completes(i, e) ==
    /\ e.section = items[i].section
    /\ e.sectionNumber = items[i].sectionNumber
    /\ e.title = items[i].title
    /\ NonBlank(FieldLines(i)) \o NonBlank(WrappedIn(i, e.text))
           = NonBlank(WrappedIn(i, items[i].text))
    /\ NonBlank(WrappedIn(i, e.text)) # <<>>

C21_NoTextLost ==
    pc \in {"overflowed", "mapped", "done"} =>
        LET nrem == Len(overflow) - (Len(items) - BoundCount)
        IN  /\ nrem \in 0..BoundCount
            /\ SubSeq(overflow, nrem + 1, Len(overflow))
                   = SubSeq(items, BoundCount + 1, Len(items))
            /\ \E S \in SUBSET (1..BoundCount) :
                   /\ Cardinality(S) = nrem
                   /\ \A k \in 1..nrem : Completes(Nth(S, k), overflow[k])
                   /\ \A i \in (1..BoundCount) \ S :
                          NonBlank(FieldLines(i))
                              = NonBlank(WrappedIn(i, items[i].text))

\* An item whose body is split between its box and its overflow entry,
\* followed in the overflow list by an item that had no box.
C21_Witness ==
    /\ pc = "done"
    /\ BoundCount = 1
    /\ Len(items) = 2
    /\ Len(overflow) = 2
    /\ FieldLines(1) # <<>>
    /\ Completes(1, overflow[1])
    /\ overflow[2] = items[2]

(***************************************************************************)
(* generate_report.py _draw_shrink_to_fit: the header value drawn at the   *)
(* first size of fixed_size, fixed_size - 0.5, ... that fits the rectangle. *)
(***************************************************************************)
\* The defaults of the signature, which overlay_fill_header_page1 passes
\* unchanged (milli-points).
HEADER_FIXED_SIZE == 11000
HEADER_MIN_SIZE == 8000
HEADER_PAD == 3000
\* "size -= 0.5"
SHRINK_STEP == 500

\* "w = c.stringWidth(text, FIXED_FONT, size); if w <= available", compared
\* without rounding: em-widths times size against milli-points times 1000.
fits_at(t, available, size) == emWidth(t) * size <= available * 1000

RECURSIVE shrink_loop(_, _, _, _, _)
\* "while size >= min_size: ... if w <= available: break; size -= 0.5".
\* Returns the size the loop leaves behind and the iterations it ran.
shrink_loop(t, available, size, min_size, iters) ==
    IF size >= min_size
    THEN IF fits_at(t, available, size)
         THEN [size |-> size, iters |-> iters + 1]
         ELSE shrink_loop(t, available, size - SHRINK_STEP, min_size,
                          iters + 1)
    ELSE [size |-> size, iters |-> iters]

\* "left, bottom, right, top = rect": the corners as given.
\* "available = max(1.0, right - left - 2 * pad)"
shrink_available(r, pad) == Max(1000, r[3] - r[1] - 2 * pad)

\* The whole call: setFont at the loop's size, drawString at
\* (left + pad, top - 0.65 * (top - bottom)).  The texts of the model hold
\* no "&", so html.unescape leaves them as they are.
draw_shrink_to_fit(r, t, fixed_size, min_size, pad) ==
    LET res == shrink_loop(t, shrink_available(r, pad), fixed_size,
                           min_size, 0)
    IN  [ops   |-> << [op |-> "setFont", size |-> res.size],
                      [op |-> "drawString", x |-> r[1] + pad,
                       y |-> r[4] - (65 * (r[4] - r[2])) \div 100,
                       s |-> t] >>,
         iters |-> res.iters]

(***************************************************************************)
(* Specification SpecShrink: _draw_shrink_to_fit applied to every bounded  *)
(* header text and to rectangles from "nothing fits" to "fits at 11".      *)
(***************************************************************************)
\* <<left, bottom, right, top>>: available widths 1 (the floor), 4, 14, 24
\* and 34 points.
ShrinkRects ==
    {<<l, 0, l + w, h>> : l \in {0, 50000},
                          w \in {4000, 10000, 20000, 30000, 40000},
                          h \in {12000, 20000}}

InitShrink ==
    /\ pc = "start"
    /\ text \in FlowTexts
    /\ rect \in ShrinkRects
    /\ max_width = shrink_available(rect, HEADER_PAD)
    /\ lines = <<>>
    /\ canvas = <<>>
    /\ ret = [ok |-> FALSE, rest |-> <<>>]
    /\ IdleDoc
    /\ IdlePool
    /\ IdleForm
    /\ IdleLayout

DrawShrinkToFit ==
    /\ pc = "start"
    /\ LET r == draw_shrink_to_fit(rect, text, HEADER_FIXED_SIZE,
                                   HEADER_MIN_SIZE, HEADER_PAD)
       IN  /\ canvas' = r.ops
           /\ calls' = r.iters
    /\ pc' = "drawn"
    /\ UNCHANGED <<text, rect, max_width, lines, ret, docVars, poolVars,
                   formVars, cur_y, SHOW_VIDEO_URLS>>

NextShrink == DrawShrinkToFit

SpecShrink == InitShrink /\ [][NextShrink]_vars

\* The sizes the loop tries: fixed_size, fixed_size - 0.5, ..., min_size.
ShrinkSizes ==
    {HEADER_FIXED_SIZE - k * SHRINK_STEP :
        k \in 0..((HEADER_FIXED_SIZE - HEADER_MIN_SIZE) \div SHRINK_STEP)}

FittingSizes == {z \in ShrinkSizes : fits_at(text, max_width, z)}

\* C22: _draw_shrink_to_fit draws the header value at a size s with
\* min_size <= s <= fixed_size: the largest size of fixed_size,
\* fixed_size - 0.5, ..., min_size at which the text fits the available
\* width, and min_size when it fits at none; the loop runs at most
\* (fixed_size - min_size) / 0.5 + 1 times.
C22_Original ==
    pc = "drawn" =>
        /\ canvas[1].op = "setFont"
        /\ canvas[1].size >= HEADER_MIN_SIZE
        /\ canvas[1].size <= HEADER_FIXED_SIZE
        /\ canvas[1].size =
              IF FittingSizes = {} THEN HEADER_MIN_SIZE
              ELSE CHOOSE z \in FittingSizes : \A o \in FittingSizes : o <= z
        /\ calls <= (HEADER_FIXED_SIZE - HEADER_MIN_SIZE) \div SHRINK_STEP + 1

\* What the code does instead: a text that fits at no size is drawn half a
\* point below min_size; everything else of C22 holds.
C22_DrawnBelowMinSize ==
    pc = "drawn" =>
        /\ canvas[1].size =
              IF FittingSizes = {} THEN HEADER_MIN_SIZE - SHRINK_STEP
              ELSE CHOOSE z \in FittingSizes : \A o \in FittingSizes : o <= z
        /\ calls <= (HEADER_FIXED_SIZE - HEADER_MIN_SIZE) \div SHRINK_STEP + 1
        /\ canvas[2] = [op |-> "drawString", x |-> rect[1] + HEADER_PAD,
                        y |-> rect[4] - (65 * (rect[4] - rect[2])) \div 100,
                        s |-> text]

(***************************************************************************)
(* Bonus.py render_report: the document is rendered once, the page of      *)
(* every section is collected, and the table of contents is drawn on an    *)
(* overlay that is merged into the page left empty for it.                 *)
(*                                                                         *)
(* An item is [sectionNumber, section, breaks]: sectionNumber is <<n>> for *)
(* the numeral of n and <<>> for a missing or non-numeric one, breaks the  *)
(* number of showPage calls made while its card is drawn (draw_item_card,  *)
(* draw_inline and the "y < 100" test after the card).  A page is          *)
(* [label, bookmarks, entries, links].                                     *)
(***************************************************************************)
TOC_ROW == 16000
\* "if y < 80" of the overlay loop.
TOC_MIN_Y == 80000

SectionNames == <<"A", "B">>

\* Python's order on the section names, as a number.
name_rank(sname) == CHOOSE i \in 1..Len(SectionNames) : SectionNames[i] = sname

\* section_key: (int(sn), section), and (9999, section) when int() raises.
section_key(it) ==
    IF it.sectionNumber = <<>> THEN <<9999, name_rank(it.section)>>
    ELSE <<it.sectionNumber[1], name_rank(it.section)>>

\* f"{sectionNumber}. {section}".strip(". "): the number, ". " and the
\* name; with no number the leading ". " is stripped.
group_key(it) ==
    IF it.sectionNumber = <<>> THEN <<it.section>>
    ELSE <<it.sectionNumber[1], ". ", it.section>>

RECURSIVE group_items(_, _, _)
\* "for it in sorted(items, key=section_key): if k not in groups: ...;
\* groups[k].append(it)".  groups is a sequence parallel to order_keys.
group_items(its, order_keys, groups) ==
    IF its = <<>> THEN [order_keys |-> order_keys, groups |-> groups]
    ELSE LET k == group_key(Head(its))
             at == {i \in 1..Len(order_keys) : order_keys[i] = k}
         IN  IF at = {}
             THEN group_items(Tail(its), Append(order_keys, k),
                              Append(groups, <<Head(its)>>))
             ELSE LET i == CHOOSE j \in at : TRUE
                  IN  group_items(Tail(its), order_keys,
                          [groups EXCEPT ![i] = Append(@, Head(its))])

sort_items(its) ==
    sorted_by(its, [i \in 1..Len(its) |-> section_key(its[i])])

Page(label, bookmarks) ==
    [label |-> label, bookmarks |-> bookmarks, entries |-> <<>>,
     links |-> <<>>]

RECURSIVE SumBreaks(_)
SumBreaks(its) ==
    IF its = <<>> THEN 0 ELSE Head(its).breaks + SumBreaks(Tail(its))

RECURSIVE doc_sections(_, _, _, _)
\* "for key in order_keys:" of doc: the bookmark goes on the page that is
\* current when the section starts; the cards add their pages and the
\* section ends with showPage.
doc_sections(order_keys, groups, pages, section_pages) ==
    IF order_keys = <<>> THEN [pages |-> pages, section_pages |-> section_pages]
    ELSE LET key == Head(order_keys)
             page_number == Len(pages) + 1
             first == Page(key, {<<"sec::", key>>})
             more == [i \in 1..SumBreaks(Head(groups)) |-> Page(key, {})]
         IN  doc_sections(Tail(order_keys), Tail(groups),
                          pages \o <<first>> \o more,
                          Append(section_pages, <<key, page_number>>))

\* doc(pass_collect, render_media): cover, executive summary (its list is
\* cut at 8 lines and never breaks the page), the table-of-contents page
\* with its heading only, then the sections.
doc(order_keys, groups) ==
    LET front == << Page("Cover", {"cover"}),
                    Page("Executive Summary", {"exec"}),
                    Page("Table of Contents", {}) >>
        r == doc_sections(order_keys, groups, front, <<>>)
    IN  [pages |-> r.pages, section_pages |-> r.section_pages,
         toc_start_page |-> 3]

\* section_pages.get(k, 1)
section_page(section_pages, k) ==
    LET at == {i \in 1..Len(section_pages) : section_pages[i][1] = k}
    IN  IF at = {} THEN 1 ELSE section_pages[CHOOSE i \in at : TRUE][2]

RECURSIVE overlay_loop(_, _, _, _)
\* "for title, page_no, dest in toc_entries: if y < 80: buf_overlay = None;
\* break; ...; link_rects.append((rect, page_no - 1)); y -= TOC_ROW"
overlay_loop(toc_entries, y, entries, link_rects) ==
    IF toc_entries = <<>>
    THEN [buf_overlay |-> TRUE, entries |-> entries,
          link_rects |-> link_rects]
    ELSE IF y < TOC_MIN_Y
    THEN [buf_overlay |-> FALSE, entries |-> entries,
          link_rects |-> link_rects]
    ELSE LET e == Head(toc_entries)
         IN  overlay_loop(Tail(toc_entries), y - TOC_ROW,
                 Append(entries, [title |-> e.title, pn |-> e.page, y |-> y]),
                 Append(link_rects, [y |-> y, target |-> e.page - 1]))

(***************************************************************************)
(* Specification SpecToc: render_report on reports of 0 to MaxKeys         *)
(* numbered sections.                                                      *)
(***************************************************************************)
MaxKeys == 42

\* n numbered sections of one item each; every tall-th card breaks the
\* page (none when tall = 0).
NumberedItems(n, tall) ==
    [i \in 1..n |-> [sectionNumber |-> <<i>>, section |-> "A",
                     breaks |-> IF tall > 0 /\ i % tall = 0 THEN 1 ELSE 0]]

Reverse(q) == [i \in 1..Len(q) |-> q[Len(q) + 1 - i]]

\* The items as extract returns them: in document order or reversed, with
\* a second item of section 1, an item without a section number, or
\* neither.
TocItems ==
    {q \o extra : q \in {NumberedItems(n, tall) : n \in 0..MaxKeys,
                                                     tall \in {0, 2, 3}}
                       \cup {Reverse(NumberedItems(n, 2)) : n \in 0..MaxKeys},
                  extra \in {<<>>,
                             <<[sectionNumber |-> <<1>>, section |-> "A",
                                breaks |-> 1]>>,
                             <<[sectionNumber |-> <<>>, section |-> "B",
                                breaks |-> 0]>>}}

NoLocals ==
    [order_keys |-> <<>>, groups |-> <<>>, section_pages |-> <<>>,
     toc_page_number |-> 0, toc_entries |-> <<>>, link_rects |-> <<>>,
     buf_overlay |-> FALSE, overlay |-> <<>>]

\* ret holds the locals of render_report, canvas the pages of reader.
InitToc ==
    /\ pc = "start"
    /\ items \in TocItems
    /\ data = [headerImageUrl |-> NULL, sections |-> <<>>]
    /\ media = <<>>
    /\ media_map = <<>>
    /\ ret = NoLocals
    /\ canvas = <<>>
    /\ text = <<>>
    /\ max_width = 0
    /\ lines = <<>>
    /\ rect = <<0, 0, 0, 0>>
    /\ IdlePool
    /\ IdleForm
    /\ IdleLayout

\* B:368-375
GroupItems ==
    /\ pc = "start"
    /\ \E sorted \in {sort_items(items)} :
          LET g == group_items(sorted, <<>>, <<>>)
          IN  ret' = [ret EXCEPT !.order_keys = g.order_keys,
                                  !.groups = g.groups]
    /\ pc' = "grouped"
    /\ UNCHANGED <<canvas, text, max_width, lines, rect, docVars, poolVars,
                   formVars, layoutVars>>

\* "first_pass_buf = doc(True, render_media=True)", "toc_entries = [...]",
\* "reader = PdfReader(first_pass_buf)"
FirstPass ==
    /\ pc = "grouped"
    /\ LET r == doc(ret.order_keys, ret.groups)
       IN  /\ canvas' = r.pages
           /\ ret' = [ret EXCEPT
                  !.section_pages = r.section_pages,
                  !.toc_page_number = r.toc_start_page,
                  !.toc_entries =
                      [i \in 1..Len(ret.order_keys) |->
                          [title |-> ret.order_keys[i],
                           page |-> section_page(r.section_pages,
                                                 ret.order_keys[i]),
                           dest |-> <<"sec::", ret.order_keys[i]>>]]]
    /\ pc' = "first_pass"
    /\ UNCHANGED <<text, max_width, lines, rect, docVars, poolVars,
                   formVars, layoutVars>>

\* "if toc_entries:" with the overlay loop.
DrawOverlay ==
    /\ pc = "first_pass"
    /\ ret.toc_entries # <<>>
    /\ LET r == overlay_loop(ret.toc_entries,
                             PAGE_H - MARGIN - 10000 - LH, <<>>, <<>>)
       IN  ret' = [ret EXCEPT !.buf_overlay = r.buf_overlay,
                               !.overlay = r.entries,
                               !.link_rects = r.link_rects]
    /\ pc' = "overlay"
    /\ UNCHANGED <<canvas, text, max_width, lines, rect, docVars, poolVars,
                   formVars, layoutVars>>

\* "if buf_overlay is None: reader = PdfReader(doc(False, ...));
\* link_rects = []"
SecondPass ==
    /\ pc = "overlay"
    /\ ~ret.buf_overlay
    /\ canvas' = doc(ret.order_keys, ret.groups).pages
    /\ ret' = [ret EXCEPT !.link_rects = <<>>]
    /\ pc' = "merged"
    /\ UNCHANGED <<text, max_width, lines, rect, docVars, poolVars,
                   formVars, layoutVars>>

\* "else: ... target_page.merge_page(overlay_reader.pages[0]) ...
\* annots_array.append(Link(rect=rect, target_page_index=target_idx))"
MergeOverlay ==
    /\ pc = "overlay"
    /\ ret.buf_overlay
    /\ LET toc_page_index == Max(0, ret.toc_page_number - 1)
       IN  canvas' = [canvas EXCEPT
                         ![toc_page_index + 1].entries = ret.overlay,
                         ![toc_page_index + 1].links = ret.link_rects]
    /\ pc' = "merged"
    /\ UNCHANGED <<ret, text, max_width, lines, rect, docVars, poolVars,
                   formVars, layoutVars>>

\* "writer.clone_document_from_reader(reader) ... writer.write(f)"
WriteReport ==
    /\ \/ pc = "merged"
       \/ pc = "first_pass" /\ ret.toc_entries = <<>>
    /\ pc' = "written"
    /\ UNCHANGED <<canvas, ret, text, max_width, lines, rect, docVars,
                   poolVars, formVars, layoutVars>>

NextToc ==
    \/ GroupItems
    \/ FirstPass
    \/ DrawOverlay
    \/ SecondPass
    \/ MergeOverlay
    \/ WriteReport

SpecToc == InitToc /\ [][NextToc]_vars

\* The page of the written document that carries the bookmark of a section.
BookmarkPage(key) ==
    CHOOSE p \in 1..Len(canvas) : <<"sec::", key>> \in canvas[p].bookmarks

\* The table-of-contents page of the written document.
TocPage == canvas[CHOOSE p \in 1..Len(canvas) :
                      canvas[p].label = "Table of Contents"]

\* The distinct section keys of the items, in the order of section_key.
SectionKeys ==
    LET keys(sorted) == group_items(sorted, <<>>, <<>>).order_keys
    IN  CHOOSE k \in {keys(sorted) : sorted \in {sort_items(items)}} : TRUE

\* The page toc lists every key of keys, in order, with the page of its
\* bookmark as page number and as link target.
TocComplete(toc, keys) ==
    /\ Len(toc.entries) = Len(keys)
    /\ Len(toc.links) = Len(keys)
    /\ \A i \in 1..Len(keys) :
          \E p \in {BookmarkPage(keys[i])} :
              /\ toc.entries[i].title = keys[i]
              /\ toc.entries[i].pn = p
              /\ toc.links[i].target + 1 = p
              /\ toc.links[i].y = toc.entries[i].y
              /\ i > 1 => toc.entries[i].y < toc.entries[i - 1].y

\* C23: in render_report, for every number of sections, the
\* table-of-contents page of the written document has one entry per section
\* key, in section order, and each entry's page number and link target
\* equal the page on which that section's bookmark was placed.
C23_Original ==
    pc = "written" =>
        \E toc \in {TocPage} : \E keys \in {SectionKeys} :
            TocComplete(toc, keys)

\* The rows one page holds: y starts at H - MARGIN - 10 - LH and a row is
\* drawn while y >= 80.
TocRows == (PAGE_H - MARGIN - 10000 - LH - TOC_MIN_Y) \div TOC_ROW + 1

\* What the code does: the table is complete for up to TocRows section
\* keys; with more, the second pass replaces the document and the
\* table-of-contents page is written with its heading only.
C23_CompleteUpToOnePage ==
    pc = "written" =>
        \E toc \in {TocPage} : \E keys \in {SectionKeys} :
            IF Len(keys) <= TocRows THEN TocComplete(toc, keys)
            ELSE toc.entries = <<>> /\ toc.links = <<>>

(***************************************************************************)
(* Bonus.py build_media_map: one fetch per distinct photo URL.             *)
(***************************************************************************)
\* The indices of media that are photos with a URL.
PhotoIdxs == {i \in 1..Len(media) : media[i].kind = "photo" /\ Truthy(media[i].url)}

PhotoUrls == {media[i].url : i \in PhotoIdxs}

\* The futures whose call a pool thread has begun and not ended.
InFlight == {f \in 1..Len(future_map) : future_map[f].state = "running"}

=============================================================================
